---- MODULE Spec2Model ----
(***************************************************************************)
(* State-machine model of the OpenClaw Graphiti plugin: the lifecycle      *)
(* hooks registered by register() (auto-recall on before_agent_start,      *)
(* auto-capture on agent_end / after_compaction / before_reset /           *)
(* before_compaction) and the GraphitiClient calls they make.              *)
(*                                                                         *)
(* A hook invocation is an async function: it runs synchronously up to its *)
(* first await, is suspended on each network call (health check, search,   *)
(* ingest) and resumes when the service answers.  Every answer of the      *)
(* service (status, network error, timeout, body shape) is chosen          *)
(* nondeterministically.                                                   *)
(*                                                                         *)
(* Strings.  A prompt is a tuple of characters.  A conversation text is a  *)
(* tuple of runs [k, id, n]: the first n characters of the source text     *)
(* named by (k, id); k = "body" is the body of the input text number id,   *)
(* any other k is the literal string k itself (id = 0).                    *)
(***************************************************************************)
EXTENDS Integers, Sequences, FiniteSets, TLC

VARIABLES rev, pluginConfig, api, h

vars == <<rev, pluginConfig, api, h>>

\* ------------------------------------------------------------------------
\* Bounds of the model
\* ------------------------------------------------------------------------
MaxPromptPieces == 3
MaxTurns == 5
MaxFileLines == 6

\* ------------------------------------------------------------------------
\* Program constants
\* ------------------------------------------------------------------------
DefaultMinPromptLength == 10
DefaultRecallMaxFacts == 10
FetchOkMin == 200
FetchOkMax == 299
ResetMinMessages == 4
ResetMinContentLength == 20
ResetPerMessageLimit == 1000
ResetMinTexts == 2
ResetSample == 20
EpisodeLimit == 12000
AgentEndMinTotal == 50
AgentEndRecent == 10
AgentEndPerMessageLimit == 2000
SummaryTail == 5
SummaryMinContent == 200
SummaryMinLength == 100
CompactionMinMessages == 4
CompactionPerMessageLimit == 2000
CompactionMinTexts == 2

\* ------------------------------------------------------------------------
\* Characters: prompts, and the skip markers of before_agent_start
\* ------------------------------------------------------------------------
HEARTBEAT == <<"H","E","A","R","T","B","E","A","T">>
PRE_COMPACTION_FLUSH == <<"P","r","e","-","c","o","m","p","a","c","t","i","o","n"," ","m","e","m","o","r","y"," ","f","l","u","s","h">>
GATEWAY_RESTART == <<"G","a","t","e","w","a","y","R","e","s","t","a","r","t">>
BOOT_CHECK == <<"b","o","o","t"," ","c","h","e","c","k">>

\* Pieces the prompts of the model are concatenated from.  HEARTBEAT itself
\* is no piece: it arises only across the boundary of P_HEART and P_BEAT.
P_HEART == <<"H","E","A","R","T">>
P_BEAT == <<"B","E","A","T">>
P_X == <<"x">>
PromptPieces ==
    {P_HEART, P_BEAT, P_X, BOOT_CHECK, GATEWAY_RESTART, PRE_COMPACTION_FLUSH}

RECURSIVE Flatten(_)
Flatten(ss) == IF ss = <<>> THEN <<>> ELSE Head(ss) \o Flatten(Tail(ss))

SeqsUpTo(S, n) == UNION {[1..k -> S] : k \in 0..n}

Prompts == {Flatten(ps) : ps \in SeqsUpTo(PromptPieces, MaxPromptPieces)}

\* String.prototype.includes
\* Includes that looks for the marker at the start only
StartsWith(s, m) == Len(m) <= Len(s) /\ SubSeq(s, 1, Len(m)) = m

Includes(s, m) ==
    \E i \in 0..(Len(s) - Len(m)) : SubSeq(s, i + 1, i + Len(m)) = m

\* ------------------------------------------------------------------------
\* Configuration: register() reads api.pluginConfig; an option is <<>> when
\* it is not set and <<v>> when it is set to v.
\* ------------------------------------------------------------------------
\* An optional value: <<>> when it is not given
Opt(S) == {<<>>} \cup {<<v>> : v \in S}

Nullish(opt, default) == IF opt = <<>> THEN default ELSE opt[1]

NotFalse(opt) == opt # <<FALSE>>

DefaultGroupId == "shiba-core"

Register(pc) ==
    [ autoRecall      |-> NotFalse(pc.autoRecall),
      autoCapture     |-> NotFalse(pc.autoCapture),
      recallMaxFacts  |-> Nullish(pc.recallMaxFacts, DefaultRecallMaxFacts),
      minPromptLength |-> Nullish(pc.minPromptLength, DefaultMinPromptLength),
      groupId         |-> Nullish(pc.groupId, DefaultGroupId) ]

Cfg == Register(pluginConfig)

\* ------------------------------------------------------------------------
\* Revisions of the plugin source held by the repository
\*   "index"     src/index.ts                   (before_agent_start, agent_end)
\*   "part_000a" src/unnamed/part_000, 1-396    (before_agent_start, agent_end)
\*   "part_000b" src/unnamed/part_000, 398-752  (before_agent_start,
\*                                               after_compaction, before_reset)
\*   "latest"    the revision the tests exercise (before_compaction); its
\*               source is not in the repository files
\* ------------------------------------------------------------------------
Revisions == {"index", "part_000a", "part_000b", "latest"}

\* The hooks register() installs with api.on
CaptureHooks(r) ==
    CASE r \in {"index", "part_000a"} -> {"agent_end"}
      [] r = "part_000b" -> {"after_compaction", "before_reset"}
      [] OTHER -> {"before_compaction"}

RecallHooks(r) ==
    IF r \in {"index", "part_000a", "part_000b"} THEN {"before_agent_start"} ELSE {}

\* The host's API object: whether it still offers registerHook, the
\* registration call that api.on replaced.  The API of the tests has none.
MockApi == [registerHook |-> FALSE]

HostApis == [registerHook : BOOLEAN]

\* The hooks register() installs with registerHook: src/index.ts registers a
\* handler named "graphiti-recall-test" on before_agent_start, inside a try
\* block, whatever the configuration says.
OldApiHooks ==
    IF rev = "index" /\ api.registerHook THEN {"before_agent_start"} ELSE {}

Hooks ==
    (IF Cfg.autoRecall THEN RecallHooks(rev) ELSE {})
        \cup (IF Cfg.autoCapture THEN CaptureHooks(rev) ELSE {})

\* ------------------------------------------------------------------------
\* Conversation texts as tuples of runs
\* ------------------------------------------------------------------------
Run(k, id, n) == [k |-> k, id |-> id, n |-> n]

Lit(s) == <<Run(s, 0, Len(s))>>

Body(id, n) == IF n = 0 THEN <<>> ELSE <<Run("body", id, n)>>

RECURSIVE TLen(_)
TLen(x) == IF x = <<>> THEN 0 ELSE Head(x).n + TLen(Tail(x))

\* String.prototype.slice(0, k)
RECURSIVE TSlice(_, _)
TSlice(x, k) ==
    IF k <= 0 \/ x = <<>> THEN <<>>
    ELSE IF Head(x).n <= k THEN <<Head(x)>> \o TSlice(Tail(x), k - Head(x).n)
    ELSE <<[Head(x) EXCEPT !.n = k]>>

\* Array.prototype.join
RECURSIVE Join(_, _)
Join(xs, sep) ==
    IF xs = <<>> THEN <<>>
    ELSE IF Len(xs) = 1 THEN xs[1]
    ELSE xs[1] \o sep \o Join(Tail(xs), sep)

\* Array.prototype.slice(-n)
LastN(xs, n) ==
    IF Len(xs) <= n THEN xs ELSE SubSeq(xs, Len(xs) - n + 1, Len(xs))

\* String.prototype.includes for a literal that texts hold as one run
TIncludes(x, s) == \E i \in 1..Len(x) : x[i].k = s /\ x[i].n = Len(s)

\* ------------------------------------------------------------------------
\* The service's answers and GraphitiClient
\* ------------------------------------------------------------------------
Fact(name, fact, validAt) ==
    [isObj |-> TRUE, name |-> name, fact |-> fact, valid_at |-> validAt]
NullItem == [isObj |-> FALSE, name |-> "", fact |-> "", valid_at |-> <<>>]
F1 == Fact("WORKS_AT", "Alice works at Acme Corp", <<"2024-01-15T10:30:00+00:00">>)
F2 == Fact("PREFERS", "User prefers dark mode", <<"2024-02-01T00:00:00+00:00">>)
\* A fact whose valid_at is null
F3 == Fact("LIVES_IN", "Alice lives in Lisbon", <<>>)

FactsValue(isArray, items) == [isArray |-> isArray, items |-> items]

\* The value of a field the body does not have
Undefined == FactsValue(FALSE, <<>>)

JsonBody(hasFacts, facts) ==
    [kind |-> "json", hasFacts |-> hasFacts, facts |-> facts,
     success |-> TRUE, message |-> "Messages added to processing queue"]
BadJson == [JsonBody(FALSE, Undefined) EXCEPT !.kind = "badjson"]
NullBody == [JsonBody(FALSE, Undefined) EXCEPT !.kind = "null"]

Status(code, body) == [t |-> "status", code |-> code, body |-> body]
NetworkError == [t |-> "neterr", code |-> 0, body |-> NullBody]
Timeout == [t |-> "timeout", code |-> 0, body |-> NullBody]

NoResponse == [t |-> "none", code |-> 0, body |-> NullBody]

HealthResponses ==
    {Status(200, JsonBody(FALSE, Undefined)),
     Status(204, NullBody), Status(503, NullBody), Status(404, BadJson),
     NetworkError, Timeout}

FactLists == {<<>>, <<F1>>, <<F1, F2>>, <<F2, F1>>, <<F1, F1>>}

SearchResponses ==
    {Status(200, JsonBody(TRUE, FactsValue(TRUE, fs))) : fs \in FactLists}
        \cup {Status(200, JsonBody(FALSE, Undefined)),
              Status(200, JsonBody(TRUE, FactsValue(FALSE, <<>>))),
              Status(200, JsonBody(TRUE, FactsValue(TRUE, <<F1, NullItem>>))),
              Status(200, BadJson), Status(200, NullBody),
              Status(500, JsonBody(TRUE, FactsValue(TRUE, <<F1>>))),
              Status(422, BadJson), NetworkError, Timeout}

IngestResponses ==
    {Status(202, JsonBody(FALSE, Undefined)),
     Status(200, JsonBody(FALSE, Undefined)),
     Status(202, BadJson), Status(500, BadJson), Status(422, NullBody),
     NetworkError, Timeout}

\* Response.ok
\* ResOk that takes every status from 200 up as a success
ResOkLoose(code) == code >= FetchOkMin

\* ResOk that takes 200 alone for a success
ResOkOnly200(code) == code = FetchOkMin

ResOk(code) == code >= FetchOkMin /\ code <= FetchOkMax

Thrown(name, code) == [thrown |-> TRUE, name |-> name, code |-> code, data |-> NullBody]
Returned(data) == [thrown |-> FALSE, name |-> "", code |-> 0, data |-> data]

\* GraphitiClient.healthy
\* ClientHealthy that asks only whether the service answered
\* No value yet
NoReturn == [Returned(NullBody) EXCEPT !.name = "pending"]

\* ClientHealthy that takes 200 alone for a success
ClientHealthyStrict(r) == r.t = "status" /\ r.code = 200

ClientHealthyReachable(r) == r.t = "status"

ClientHealthy(r) == r.t = "status" /\ ResOk(r.code)

\* GraphitiClient.fetch: the POST, the status check and res.json()
ClientFetch(r) ==
    IF r.t = "neterr" THEN Thrown("TypeError", 0)
    ELSE IF r.t = "timeout" THEN Thrown("AbortError", 0)
    ELSE IF ~ResOk(r.code) THEN Thrown("Error", r.code)
    ELSE IF r.body.kind = "badjson" THEN Thrown("SyntaxError", 0)
    ELSE Returned(r.body)

\* GraphitiClient.search: data.facts ?? []
\* ClientSearch that returns the body as it is
ClientSearchRaw(r) == ClientFetch(r)

ClientSearch(r) ==
    LET d == ClientFetch(r) IN
    IF d.thrown THEN d
    ELSE IF d.data.kind = "null" THEN Thrown("TypeError", 0)
    ELSE IF d.data.hasFacts THEN d
    ELSE Returned([d.data EXCEPT !.facts = FactsValue(TRUE, <<>>)])

\* GraphitiClient.ingest
ClientIngest(r) == ClientFetch(r)

\* The requests a hook invocation has sent, in order
\* Headers that sends a bearer token whether or not one is configured
HeadersWithAnyToken(op) ==
    [contentType |-> op \notin {"health", "episodes"}, authorization |-> <<"anonymous">>]

\* The headers of a request: Content-Type on the POST requests, and nothing
\* else (the client takes no apiKey).
Headers(op) ==
    [contentType |-> op \notin {"health", "episodes"}, authorization |-> <<>>]

\* Scope of a request that names no group
ScopeNone(op, group) == [at |-> "none", ids |-> <<>>]

\* Where a request carries the client's group id: the body's group_ids list
\* (search), the body's group_id (get-memory, messages), the path (episodes)
Scope(op, group) ==
    CASE op = "search" -> [at |-> "group_ids", ids |-> <<group>>]
      [] op \in {"get-memory", "ingest"} -> [at |-> "group_id", ids |-> <<group>>]
      [] op = "episodes" -> [at |-> "path", ids |-> <<group>>]
      [] OTHER -> [at |-> "none", ids |-> <<>>]

Request(op, query, maxFacts, messages) ==
    [op |-> op, query |-> query, max_facts |-> maxFacts,
     scope |-> Scope(op, Cfg.groupId), messages |-> messages, headers |-> Headers(op)]
HealthRequest == Request("health", <<>>, 0, <<>>)
SearchRequest(query, maxFacts) == Request("search", query, maxFacts, <<>>)
IngestRequest(messages) == Request("ingest", <<>>, 0, messages)

\* Message that leaves the role empty
MessageNoRole(content, roleType, role, name, source) ==
    [content |-> content, role_type |-> roleType, role |-> "",
     name |-> name, source_description |-> source]

Message(content, roleType, role, name, source) ==
    [content |-> content, role_type |-> roleType, role |-> role,
     name |-> name, source_description |-> source]

\* ------------------------------------------------------------------------
\* Hook invocations
\* ------------------------------------------------------------------------
NoEvent ==
    [present |-> TRUE, hasPrompt |-> FALSE, promptIsString |-> TRUE, prompt |-> <<>>,
     success |-> FALSE, msgs |-> "absent", messages |-> <<>>,
     sessionFile |-> "absent", lines |-> <<>>]

\* The hook called with undefined for its event
NullEvent == [NoEvent EXCEPT !.present = FALSE]

Idle ==
    [kind |-> "none", pc |-> "idle", ev |-> NoEvent, health |-> NoResponse, search |-> NoResponse,
     reqs |-> <<>>, result |-> "pending", out |-> <<>>, logs |-> <<>>,
     timer |-> "none", res |-> NoResponse, ret |-> NoReturn, text |-> <<>>]

Log(lvl, tag, code) == [lvl |-> lvl, tag |-> tag, code |-> code]

\* The invocation returns (its promise resolves with undefined).
Returns(hs, logs) ==
    [hs EXCEPT !.pc = "done", !.result = "undefined", !.logs = @ \o logs]

\* The try block of a hook encloses everything from its first await on.
InTry(hs) == hs.pc \in {"health", "search", "ingest"}

\* An exception raised while the invocation is at hs.pc: the catch block
\* logs it and the hook returns; outside the try block the promise rejects.
CatchLog(hs, e) ==
    CASE hs.kind = "before_agent_start" ->
            Log(IF rev = "part_000b" THEN "file" ELSE "warn", "recall failed", e.code)
      [] hs.kind = "agent_end" -> Log("warn", "capture failed", e.code)
      [] OTHER -> Log(IF rev = "latest" THEN "warn" ELSE "file", "capture failed", e.code)

\* Raise that sends the failed request once more before giving up
RaiseRetry(hs, e) ==
    IF InTry(hs) /\ Len(hs.reqs) < 3 THEN [hs EXCEPT !.reqs = Append(@, @[Len(@)])]
    ELSE IF InTry(hs) THEN Returns(hs, <<CatchLog(hs, e)>>)
    ELSE [hs EXCEPT !.pc = "done", !.result = "rejected"]

Raise(hs, e) ==
    IF InTry(hs) THEN Returns(hs, <<CatchLog(hs, e)>>)
    ELSE [hs EXCEPT !.pc = "done", !.result = "rejected"]

\* ------------------------------------------------------------------------
\* Auto-recall: before_agent_start
\* ------------------------------------------------------------------------
RecallMarkers ==
    IF rev = "part_000b" THEN {HEARTBEAT, BOOT_CHECK}
    ELSE {HEARTBEAT, PRE_COMPACTION_FLUSH, GATEWAY_RESTART}

\* !event.prompt || event.prompt.length < minPromptLength
\* PromptTooShort without the length test
PromptMissing(ev) == ~ev.hasPrompt

\* PromptTooShort that also rejects a prompt of exactly the minimum length
PromptTooShortOrEqual(ev) ==
    \/ ~ev.hasPrompt
    \/ ev.promptIsString /\ Len(ev.prompt) <= Cfg.minPromptLength

PromptTooShort(ev) ==
    \/ ~ev.hasPrompt
    \/ ev.promptIsString /\ Len(ev.prompt) = 0
    \/ ev.promptIsString /\ Len(ev.prompt) < Cfg.minPromptLength

\* HasSkipMarker that finds no marker
HasSkipMarkerNever(prompt) == FALSE

HasSkipMarker(prompt) == \E m \in RecallMarkers : Includes(prompt, m)

\* event.prompt is missing, is a string, or is a number such as 1234567890
RecallEvents ==
    {NullEvent, NoEvent, [NoEvent EXCEPT !.hasPrompt = TRUE, !.promptIsString = FALSE]}
        \cup {[NoEvent EXCEPT !.hasPrompt = TRUE, !.prompt = p] : p \in Prompts}

\* appendFileSync to the debug log succeeds or throws; only src/index.ts
\* writes it outside a try block.
DebugWrites == IF rev = "index" THEN BOOLEAN ELSE {TRUE}

Bullet(f) == <<"- **", f.name, "**: ", f.fact>>

\* FormatContext that lists each fact once
FormatContextDistinct(items) ==
    LET keep == SelectSeq([i \in 1..Len(items) |-> [at |-> i, f |-> items[i]]],
                          LAMBDA e : \A j \in 1..(e.at - 1) : items[j] # e.f)
    IN <<"<graphiti-context>\n", "Relevant knowledge graph facts (auto-recalled):\n">>
           \o Join([i \in 1..Len(keep) |-> Bullet(keep[i].f)], <<"\n">>)
           \o <<"\n", "</graphiti-context>">>

FormatContext(items) ==
    <<"<graphiti-context>\n", "Relevant knowledge graph facts (auto-recalled):\n">>
        \o Join([i \in 1..Len(items) |-> Bullet(items[i])], <<"\n">>)
        \o <<"\n", "</graphiti-context>">>

\* The host fires before_agent_start; the handler runs to its first await.
BeforeAgentStart(s) ==
    /\ h[s].pc = "idle"
    /\ "before_agent_start" \in Hooks
    /\ \E ev \in RecallEvents, written \in DebugWrites :
         LET fired == [Idle EXCEPT !.kind = "before_agent_start", !.ev = ev]
             entry == IF rev = "index"
                      THEN <<Log("file", "before_agent_start fired", 0),
                             Log("info", "before_agent_start fired", 0)>>
                      ELSE <<>>
             hs == [fired EXCEPT !.logs = entry]
         IN h' = [h EXCEPT ![s] =
                IF ~written THEN Raise(fired, Thrown("EACCES", 0))
                ELSE IF ~ev.present THEN Raise(fired, Thrown("TypeError", 0))
                ELSE IF rev = "index" /\ ev.hasPrompt /\ ~ev.promptIsString
                     THEN Raise(fired, Thrown("TypeError", 0))
                ELSE IF PromptTooShort(ev) THEN Returns(hs, <<>>)
                ELSE IF ~ev.promptIsString THEN Raise(hs, Thrown("TypeError", 0))
                ELSE IF HasSkipMarker(ev.prompt) THEN Returns(hs, <<>>)
                ELSE [hs EXCEPT !.pc = "health", !.reqs = <<HealthRequest>>]]
    /\ UNCHANGED <<rev, pluginConfig, api>>

\* client.healthy() has answered.
RecallAfterHealth(s) ==
    /\ h[s].kind = "before_agent_start"
    /\ h[s].pc = "health"
    /\ \E r \in HealthResponses :
         h' = [h EXCEPT ![s] =
                IF ~ClientHealthy(r)
                THEN Returns([h[s] EXCEPT !.health = r],
                             IF rev = "part_000b" THEN <<>>
                             ELSE <<Log("warn", "server unhealthy, skipping auto-recall", 0)>>)
                ELSE [h[s] EXCEPT !.health = r, !.pc = "search",
                        !.reqs = Append(@, SearchRequest(h[s].ev.prompt,
                                                         Cfg.recallMaxFacts))]]
    /\ UNCHANGED <<rev, pluginConfig, api>>

\* NoFacts that lets an empty list through
NoFactsNever(items) == FALSE

\* facts.length === 0
NoFacts(items) == Len(items) = 0

\* client.search() has answered: the facts are formatted or the failure is caught.
RecallAfterSearch(s) ==
    /\ h[s].kind = "before_agent_start"
    /\ h[s].pc = "search"
    /\ \E r \in SearchResponses :
         LET d == ClientSearch(r)
             facts == d.data.facts
             hs == [h[s] EXCEPT !.search = r]
         IN h' = [h EXCEPT ![s] =
                IF d.thrown THEN Raise(hs, d)
                ELSE IF ~facts.isArray THEN Raise(hs, Thrown("TypeError", 0))
                ELSE IF NoFacts(facts.items) THEN Returns(hs, <<>>)
                ELSE IF \E i \in 1..Len(facts.items) : ~facts.items[i].isObj
                     THEN Raise(hs, Thrown("TypeError", 0))
                ELSE [hs EXCEPT !.pc = "done", !.result = "context",
                        !.out = FormatContext(facts.items),
                        !.logs = Append(@, Log(IF rev = "part_000b" THEN "file" ELSE "info",
                                               "facts injected", Len(facts.items)))]]
    /\ UNCHANGED <<rev, pluginConfig, api>>

\* The host fires before_agent_start and runs the handler that was registered
\* with registerHook: it writes one line to the debug log, outside any try.
OldApiHook(s) ==
    /\ h[s].pc = "idle"
    /\ "before_agent_start" \in OldApiHooks
    /\ \E written \in DebugWrites :
         LET fired == [Idle EXCEPT !.kind = "graphiti-recall-test"]
         IN h' = [h EXCEPT ![s] =
                IF written
                THEN Returns(fired, <<Log("file", "OLD API before_agent_start FIRED", 0)>>)
                ELSE Raise(fired, Thrown("EACCES", 0))]
    /\ UNCHANGED <<rev, pluginConfig, api>>

\* Return that hands back every invocation in flight with the one that ended
ReturnAll(s) ==
    /\ h[s].pc = "done"
    /\ h' = [t \in DOMAIN h |-> Idle]
    /\ UNCHANGED <<rev, pluginConfig, api>>

\* The host has taken the invocation's result; the slot is free again.
Return(s) ==
    /\ h[s].pc = "done"
    /\ h' = [h EXCEPT ![s] = Idle]
    /\ UNCHANGED <<rev, pluginConfig, api>>

\* ------------------------------------------------------------------------
\* Conversation events: the messages of agent_end, before_reset and
\* before_compaction
\* ------------------------------------------------------------------------
NoText == <<>>

NullMsg ==
    [obj |-> FALSE, role |-> "none", ctype |-> "other", text |-> NoText, blocks |-> <<>>]
StringMsg(role, text) ==
    [obj |-> TRUE, role |-> role, ctype |-> "string", text |-> text, blocks |-> <<>>]
BlocksMsg(role, blocks) ==
    [obj |-> TRUE, role |-> role, ctype |-> "blocks", text |-> NoText, blocks |-> blocks]
OtherMsg(role) ==
    [obj |-> TRUE, role |-> role, ctype |-> "other", text |-> NoText, blocks |-> <<>>]

TextBlock(text) == [btype |-> "text", hasText |-> TRUE, text |-> text]
ImageBlock == [btype |-> "image", hasText |-> FALSE, text |-> NoText]

\* The turns alternate user / assistant, as a conversation does.
RoleAt(i) == IF i % 2 = 1 THEN "user" ELSE "assistant"

StringLengths == {5, 20, 21, 25, 1000, 1001, 2001}

MsgKinds ==
    {[shape |-> "string", len |-> n] : n \in StringLengths}
        \cup {[shape |-> sh, len |-> 30] :
                sh \in {"null", "system", "other", "blocks", "heartbeat", "noreply"}}

\* The message of kind k at position i of the list; its body is text number i.
MsgOf(k, i) ==
    CASE k.shape = "string" -> StringMsg(RoleAt(i), Body(i, k.len))
      [] k.shape = "null" -> NullMsg
      [] k.shape = "system" -> StringMsg("system", Body(i, k.len))
      [] k.shape = "other" -> OtherMsg(RoleAt(i))
      [] k.shape = "blocks" ->
            BlocksMsg(RoleAt(i), <<ImageBlock, TextBlock(Body(i, k.len))>>)
      [] k.shape = "heartbeat" ->
            StringMsg(RoleAt(i), Body(i, k.len) \o Lit("HEARTBEAT_OK"))
      [] OTHER -> StringMsg(RoleAt(i), Lit("NO_REPLY"))

\* n messages: the first p of kind a, the others of kind b.
Batch(n, p, a, b) == [i \in 1..n |-> MsgOf(IF i <= p THEN a ELSE b, i)]

SmallBatches ==
    {Batch(n, p, a, b) : n \in 0..MaxTurns, p \in 0..MaxTurns, a \in MsgKinds, b \in MsgKinds}

\* Long conversations: the sample window of before_reset and the episode limit.
BigBatches ==
    {Batch(n, p, a, b) :
        n \in {20, 21, 25}, p \in {0, 5},
        a \in {[shape |-> "string", len |-> 5], [shape |-> "null", len |-> 30]},
        b \in {[shape |-> "string", len |-> l] : l \in {21, 1000, 2001}}}

MessagesEvent(success, msgs, messages) ==
    [NoEvent EXCEPT !.success = success, !.msgs = msgs, !.messages = messages]

\* event.messages is missing, is no array ({}), or is an array.
ConversationEvents ==
    {NullEvent, MessagesEvent(TRUE, "absent", <<>>), MessagesEvent(TRUE, "nonarray", <<>>)}
        \cup {MessagesEvent(TRUE, "array", ms) : ms \in SmallBatches \cup BigBatches}

AgentEndEvents ==
    ConversationEvents
        \cup {MessagesEvent(FALSE, "array", Batch(n, 0, k, k)) :
                n \in {0, 4}, k \in {[shape |-> "string", len |-> 25]}}

\* ------------------------------------------------------------------------
\* after_compaction events: the session file
\* ------------------------------------------------------------------------
\* A line of the JSONL session file: it fails to parse, or holds an entry
\* whose message (entry.message ?? entry) has a role and a content.
FileLine(json, role, isString, text) ==
    [json |-> json, role |-> role, isString |-> isString, text |-> text]

LineKinds == {"bad", "user150", "user201", "user13000", "assistant500"}

LineOf(k, i) ==
    CASE k = "bad" -> FileLine(FALSE, "none", FALSE, NoText)
      [] k = "user150" -> FileLine(TRUE, "user", TRUE, Body(i, 150))
      [] k = "user201" -> FileLine(TRUE, "user", TRUE, Body(i, 201))
      [] k = "user13000" -> FileLine(TRUE, "user", TRUE, Body(i, 13000))
      [] OTHER -> FileLine(TRUE, "assistant", TRUE, Body(i, 500))

SessionFiles ==
    {[i \in 1..n |-> LineOf(IF i <= p THEN a ELSE b, i)] :
        n \in 0..MaxFileLines, p \in 0..MaxFileLines, a \in LineKinds, b \in LineKinds}

\* event.sessionFile is missing, names a file that cannot be read, or a file.
CompactionEvents ==
    {NullEvent, NoEvent, [NoEvent EXCEPT !.sessionFile = "unreadable"]}
        \cup {[NoEvent EXCEPT !.sessionFile = "ok", !.lines = ls] : ls \in SessionFiles}

\* ------------------------------------------------------------------------
\* Auto-capture: text extraction
\* ------------------------------------------------------------------------
CaptureRoles == {"user", "assistant"}

RolePrefix(role) == Lit(role \o ": ")

\* before_reset: user and assistant messages whose content is a string
\* longer than 20 characters, each cut to 1000 characters
\* ResetUsable that keeps the user's messages only
ResetUsableUser(m) ==
    m.obj /\ m.role = "user" /\ m.ctype = "string" /\ TLen(m.text) > ResetMinContentLength

ResetUsable(m) ==
    /\ m.obj
    /\ m.role \in {"user", "assistant"}
    /\ m.ctype = "string"
    /\ TLen(m.text) > ResetMinContentLength

\* ResetTexts that joins the turns whole
ResetTextsUncut(ms) ==
    LET keep == SelectSeq(ms, ResetUsable)
    IN [i \in 1..Len(keep) |-> RolePrefix(keep[i].role) \o keep[i].text]

RECURSIVE ResetTexts(_)
ResetTexts(ms) ==
    IF ms = <<>> THEN <<>>
    ELSE (IF ResetUsable(Head(ms))
          THEN <<RolePrefix(Head(ms).role) \o TSlice(Head(ms).text, ResetPerMessageLimit)>>
          ELSE <<>>) \o ResetTexts(Tail(ms))

\* ResetSampleText without the sampling window
ResetSampleAll(texts) == Join(texts, Lit("\n\n"))

\* texts.slice(-20).join("\n\n"), then sample.slice(0, 12000)
ResetSampleText(texts) == Join(LastN(texts, ResetSample), Lit("\n\n"))

\* ResetMessage without the cut to the limit of an episode
ResetMessageUncut(texts) ==
    Message(ResetSampleText(texts), "user", "conversation",
            "session-reset", "OpenClaw auto-capture: session reset")

ResetMessage(texts) ==
    Message(TSlice(ResetSampleText(texts), EpisodeLimit), "user", "conversation",
            "session-reset", "OpenClaw auto-capture: session reset")

\* agent_end: one entry per string content and per text block
RECURSIVE TextBlocks(_)
TextBlocks(bs) ==
    IF bs = <<>> THEN <<>>
    ELSE (IF Head(bs).btype = "text" /\ Head(bs).hasText THEN <<Head(bs).text>> ELSE <<>>)
            \o TextBlocks(Tail(bs))

TextEntry(role, content) == [role |-> role, content |-> content]

RECURSIVE AgentEndTexts(_)
AgentEndTexts(ms) ==
    IF ms = <<>> THEN <<>>
    ELSE LET m == Head(ms)
             bs == TextBlocks(m.blocks)
         IN (IF ~m.obj \/ m.role \notin CaptureRoles THEN <<>>
             ELSE IF m.ctype = "string" THEN <<TextEntry(m.role, m.text)>>
             ELSE IF m.ctype = "blocks"
                  THEN [i \in 1..Len(bs) |-> TextEntry(m.role, bs[i])]
             ELSE <<>>) \o AgentEndTexts(Tail(ms))

TotalContent(texts) == Join([i \in 1..Len(texts) |-> texts[i].content], Lit(" "))

IsSpace(run) == run.k \in {" ", "\n\n"}

RECURSIVE TrimStart(_)
TrimStart(x) == IF x # <<>> /\ IsSpace(Head(x)) THEN TrimStart(Tail(x)) ELSE x

RECURSIVE TrimEnd(_)
TrimEnd(x) ==
    IF x # <<>> /\ IsSpace(x[Len(x)]) THEN TrimEnd(SubSeq(x, 1, Len(x) - 1)) ELSE x

\* String.prototype.trim
Trim(x) == TrimEnd(TrimStart(x))

\* totalContent.replace(/NO_REPLY/g, "")
RECURSIVE RemoveNoReply(_)
RemoveNoReply(x) ==
    IF x = <<>> THEN <<>>
    ELSE (IF Head(x).k = "NO_REPLY" /\ Head(x).n = Len("NO_REPLY") THEN <<>> ELSE <<Head(x)>>)
            \o RemoveNoReply(Tail(x))

\* The reason agent_end skips the extracted texts, or "capture"
AgentEndFilter(texts) ==
    LET total == TotalContent(texts) IN
    IF Len(texts) = 0 THEN "no texts"
    ELSE IF TLen(total) < AgentEndMinTotal THEN "too short"
    ELSE IF TIncludes(total, "HEARTBEAT_OK") \/ TIncludes(total, "Pre-compaction memory flush")
         THEN "system content"
    ELSE IF rev = "part_000a" /\ TIncludes(total, "NO_REPLY") THEN "system content"
    ELSE IF rev = "index" /\ TLen(Trim(RemoveNoReply(total))) < AgentEndMinTotal
         THEN "only NO_REPLY"
    ELSE "capture"

\* EpisodeContent of every entry extracted
EpisodeContentAll(texts) ==
    Join([i \in 1..Len(texts) |->
            RolePrefix(texts[i].role) \o TSlice(texts[i].content, AgentEndPerMessageLimit)],
         Lit("\n\n"))

EpisodeContent(texts) ==
    LET recent == LastN(texts, AgentEndRecent) IN
    Join([i \in 1..Len(recent) |->
            RolePrefix(recent[i].role) \o TSlice(recent[i].content, AgentEndPerMessageLimit)],
         Lit("\n\n"))

\* AgentEndMessage without the cut to the limit of an episode
AgentEndMessageUncut(texts) ==
    Message(EpisodeContent(texts), "user", "conversation",
            "conversation", "OpenClaw auto-capture: agent conversation")

AgentEndMessage(texts) ==
    Message(TSlice(EpisodeContent(texts), EpisodeLimit), "user", "conversation",
            "conversation", "OpenClaw auto-capture: agent conversation")

\* after_compaction: the longest user string of more than 200 characters
\* among the last 5 lines of the session file
RECURSIVE Summary(_, _)
Summary(ls, best) ==
    IF ls = <<>> THEN best
    ELSE LET l == Head(ls)
             better == /\ l.json /\ l.role = "user" /\ l.isString
                       /\ TLen(l.text) > SummaryMinContent
                       /\ TLen(l.text) > TLen(best)
         IN Summary(Tail(ls), IF better THEN l.text ELSE best)

CompactionSummary(lines) == Summary(LastN(lines, SummaryTail), NoText)

SummaryMessage(summary) ==
    Message(TSlice(summary, EpisodeLimit), "system", "shiba",
            "compaction", "OpenClaw auto-capture: compaction summary")

\* before_compaction: user and assistant turns whose content holds text (a
\* string, or the text blocks of a block list), each cut to 2000 characters
CompactionText(m) ==
    IF m.ctype = "string" THEN m.text
    ELSE IF m.ctype = "blocks" THEN Join(TextBlocks(m.blocks), Lit("\n"))
    ELSE NoText

CompactionUsable(m) ==
    m.obj /\ m.role \in {"user", "assistant"} /\ TLen(CompactionText(m)) > 0

RECURSIVE CompactionTexts(_)
CompactionTexts(ms) ==
    IF ms = <<>> THEN <<>>
    ELSE (IF CompactionUsable(Head(ms))
          THEN <<RolePrefix(Head(ms).role)
                    \o TSlice(CompactionText(Head(ms)), CompactionPerMessageLimit)>>
          ELSE <<>>) \o CompactionTexts(Tail(ms))

CompactionMessage(texts) ==
    Message(TSlice(Join(texts, Lit("\n\n")), EpisodeLimit), "user", "conversation",
            "compaction", "pre-compaction conversation")

\* ------------------------------------------------------------------------
\* Auto-capture: the hooks
\* ------------------------------------------------------------------------
CaptureKinds == {"agent_end", "after_compaction", "before_reset", "before_compaction"}

\* event.messages.length < k, for a missing length (undefined < k is false)
\* FewerThan with the floor two turns lower
FewerThanLess(ev, k) == ev.msgs = "array" /\ Len(ev.messages) < k - 2

FewerThan(ev, k) == ev.msgs = "array" /\ Len(ev.messages) < k

\* AwaitHealth that takes the health of the service for known and asks nothing
AwaitHealthCached(hs) == [hs EXCEPT !.pc = "health"]

AwaitHealth(hs) == [hs EXCEPT !.pc = "health", !.reqs = <<HealthRequest>>]

\* The host fires agent_end.
AgentEnd(s) ==
    /\ h[s].pc = "idle"
    /\ "agent_end" \in Hooks
    /\ \E ev \in AgentEndEvents, written \in DebugWrites :
         LET fired == [Idle EXCEPT !.kind = "agent_end", !.ev = ev]
             entry == IF rev = "index"
                      THEN <<Log("file", "agent_end fired", 0),
                             Log("info", "agent_end fired", 0)>>
                      ELSE <<>>
             hs == [fired EXCEPT !.logs = entry]
         IN h' = [h EXCEPT ![s] =
                IF ~written THEN Raise(fired, Thrown("EACCES", 0))
                ELSE IF ~ev.present THEN Raise(fired, Thrown("TypeError", 0))
                ELSE IF ~ev.success \/ ev.msgs = "absent" \/ FewerThan(ev, 1)
                THEN Returns(hs, <<>>)
                ELSE AwaitHealth(hs)]
    /\ UNCHANGED <<rev, pluginConfig, api>>

\* The host fires before_reset.
BeforeReset(s) ==
    /\ h[s].pc = "idle"
    /\ "before_reset" \in Hooks
    /\ \E ev \in ConversationEvents :
         LET fired == [Idle EXCEPT !.kind = "before_reset", !.ev = ev]
             hs == [fired EXCEPT !.logs = <<Log("file", "RESET", 0)>>]
         IN h' = [h EXCEPT ![s] =
                IF ~ev.present THEN Raise(fired, Thrown("TypeError", 0))
                ELSE IF ev.msgs = "absent" \/ FewerThan(ev, ResetMinMessages)
                THEN Returns(hs, <<Log("file", "RESET SKIP: too few messages", 0)>>)
                ELSE AwaitHealth(hs)]
    /\ UNCHANGED <<rev, pluginConfig, api>>

\* The host fires after_compaction.
AfterCompaction(s) ==
    /\ h[s].pc = "idle"
    /\ "after_compaction" \in Hooks
    /\ \E ev \in CompactionEvents :
         LET fired == [Idle EXCEPT !.kind = "after_compaction", !.ev = ev]
             hs == [fired EXCEPT !.logs = <<Log("file", "COMPACTION", 0)>>]
         IN h' = [h EXCEPT ![s] =
                IF ~ev.present THEN Raise(fired, Thrown("TypeError", 0))
                ELSE IF ev.sessionFile = "absent"
                THEN Returns(hs, <<Log("file", "COMPACTION SKIP: no sessionFile", 0)>>)
                ELSE AwaitHealth(hs)]
    /\ UNCHANGED <<rev, pluginConfig, api>>

\* The host fires before_compaction.
BeforeCompaction(s) ==
    /\ h[s].pc = "idle"
    /\ "before_compaction" \in Hooks
    /\ \E ev \in ConversationEvents :
         LET hs == [Idle EXCEPT !.kind = "before_compaction", !.ev = ev]
         IN h' = [h EXCEPT ![s] =
                IF ~ev.present \/ ev.msgs # "array" \/ FewerThan(ev, CompactionMinMessages)
                THEN Returns(hs, <<>>)
                ELSE AwaitHealth(hs)]
    /\ UNCHANGED <<rev, pluginConfig, api>>

Ingest(hs, message) ==
    [hs EXCEPT !.pc = "ingest", !.reqs = Append(@, IngestRequest(<<message>>))]

\* What a capture hook logs when the service is unhealthy
UnhealthyLog(kind) ==
    CASE kind = "agent_end" -> <<Log("warn", "server unhealthy, skipping auto-capture", 0)>>
      [] kind = "after_compaction" -> <<Log("file", "COMPACTION SKIP: unhealthy", 0)>>
      [] kind = "before_compaction" -> <<Log("warn", "server unhealthy", 0)>>
      [] OTHER -> <<>>

\* The rest of each hook's try block up to client.ingest()
AgentEndCapture(hs) ==
    LET texts == AgentEndTexts(hs.ev.messages)
        why == AgentEndFilter(texts)
    IN IF hs.ev.msgs # "array" THEN Raise(hs, Thrown("TypeError", 0))
       ELSE IF why # "capture"
            THEN Returns(hs, IF rev = "index" THEN <<Log("file", why, 0)>> ELSE <<>>)
       ELSE Ingest(hs, AgentEndMessage(texts))

\* ResetCapture without the floor of two usable lines
ResetCaptureNoFloor(hs) ==
    IF hs.ev.msgs # "array" THEN Raise(hs, Thrown("TypeError", 0))
    ELSE Ingest(hs, ResetMessage(ResetTexts(hs.ev.messages)))

ResetCapture(hs) ==
    LET texts == ResetTexts(hs.ev.messages) IN
    IF hs.ev.msgs # "array" THEN Raise(hs, Thrown("TypeError", 0))
    ELSE IF Len(texts) < ResetMinTexts
         THEN Returns(hs, <<Log("file", "RESET SKIP: not enough text", 0)>>)
    ELSE Ingest(hs, ResetMessage(texts))

SummaryCapture(hs) ==
    LET summary == CompactionSummary(hs.ev.lines) IN
    IF hs.ev.sessionFile # "ok" THEN Raise(hs, Thrown("ENOENT", 0))
    ELSE IF TLen(summary) < SummaryMinLength
         THEN Returns(hs, <<Log("file", "COMPACTION SKIP: no summary found", 0)>>)
    ELSE Ingest(hs, SummaryMessage(summary))

CompactionCapture(hs) ==
    LET texts == CompactionTexts(hs.ev.messages) IN
    IF Len(texts) < CompactionMinTexts THEN Returns(hs, <<>>)
    ELSE Ingest(hs, CompactionMessage(texts))

\* client.healthy() has answered a capture hook.
CaptureAfterHealth(s) ==
    /\ h[s].kind \in CaptureKinds
    /\ h[s].pc = "health"
    /\ \E r \in HealthResponses :
         h' = [h EXCEPT ![s] =
                IF ~ClientHealthy(r)
                THEN Returns([h[s] EXCEPT !.health = r], UnhealthyLog(h[s].kind))
                ELSE LET hs == [h[s] EXCEPT !.health = r] IN
                     CASE hs.kind = "agent_end" -> AgentEndCapture(hs)
                       [] hs.kind = "before_reset" -> ResetCapture(hs)
                       [] hs.kind = "after_compaction" -> SummaryCapture(hs)
                       [] OTHER -> CompactionCapture(hs)]
    /\ UNCHANGED <<rev, pluginConfig, api>>

\* client.ingest() has answered.
CaptureAfterIngest(s) ==
    /\ h[s].kind \in CaptureKinds
    /\ h[s].pc = "ingest"
    /\ \E r \in IngestResponses :
         LET d == ClientIngest(r)
             hs == [h[s] EXCEPT !.res = r]
         IN h' = [h EXCEPT ![s] =
                IF d.thrown THEN Raise(hs, d)
                ELSE Returns(hs, <<Log(IF hs.kind = "agent_end" THEN "info" ELSE "file",
                                       "ingested", 0)>>)]
    /\ UNCHANGED <<rev, pluginConfig, api>>

\* ------------------------------------------------------------------------
\* GraphitiClient: one call, from the request to the value it gives back
\* ------------------------------------------------------------------------
ClientOps == {"healthy", "search", "getMemory", "ingest", "episodes"}

\* The operations that go through the private fetch()
FetchOps == {"search", "getMemory", "ingest"}

BoolBody(b) == [NullBody EXCEPT !.kind = "bool", !.success = b]

\* A bare JSON array, as GET /episodes answers
ArrayBody(items) == [JsonBody(FALSE, FactsValue(TRUE, items)) EXCEPT !.kind = "array"]

\* A body that never arrives after the status line and the headers
StalledBody == [NullBody EXCEPT !.kind = "stalled"]

E1 == Fact("session-reset-1700000000000", "user(user): Hello", <<"2024-01-15T10:30:00+00:00">>)

EpisodesResponses ==
    {Status(200, ArrayBody(<<>>)), Status(200, ArrayBody(<<E1>>)),
     Status(200, BadJson), Status(500, BadJson), Status(404, ArrayBody(<<E1>>)),
     NetworkError}

\* What the service may answer to a call before its timer fires
ClientResponses(op) ==
    (CASE op = "healthy" -> HealthResponses
       [] op = "ingest" -> IngestResponses \cup {Status(202, StalledBody)}
       [] op = "episodes" -> EpisodesResponses \cup {Status(200, StalledBody)}
       [] OTHER -> SearchResponses \cup {Status(200, StalledBody)}) \ {Timeout}

SampleMessage ==
    Message(Lit("User prefers dark mode"), "user", "user", "test", "test")

ClientRequest(op) ==
    CASE op = "healthy" -> {HealthRequest}
      [] op = "search" -> {SearchRequest(q, n) : q \in {P_X, HEARTBEAT}, n \in {5, 10}}
      [] op = "getMemory" -> {Request("get-memory", <<>>, n, <<SampleMessage>>) : n \in {5, 10}}
      [] op = "ingest" -> {IngestRequest(<<SampleMessage>>)}
      [] OTHER -> {Request("episodes", <<>>, n, <<>>) : n \in {5, 10}}

\* GraphitiClient.getMemory
ClientGetMemory(r) == ClientSearch(r)

\* GraphitiClient.episodes: `return res.json()` hands the pending promise
\* to the caller, so a body that fails to parse rejects outside the catch.
ClientEpisodes(r) ==
    IF r.t # "status" THEN Returned(ArrayBody(<<>>))
    ELSE IF ~ResOk(r.code) THEN Returned(ArrayBody(<<>>))
    ELSE IF r.body.kind = "badjson" THEN Thrown("SyntaxError", 0)
    ELSE Returned(r.body)

\* The value (or the error) the operation gives for the answer r
ClientOutcome(op, r) ==
    CASE op = "healthy" -> Returned(BoolBody(ClientHealthy(r)))
      [] op = "search" -> ClientSearch(r)
      [] op = "getMemory" -> ClientGetMemory(r)
      [] op = "ingest" -> ClientIngest(r)
      [] OTHER -> ClientEpisodes(r)

Completes(hs, r, timer) ==
    [hs EXCEPT !.pc = "done", !.res = r, !.timer = timer, !.ret = ClientOutcome(hs.kind, r)]

\* The caller invokes an operation: the timer is set and the request sent.
ClientCall(s) ==
    /\ h[s].pc = "idle"
    /\ \E op \in ClientOps : \E q \in ClientRequest(op) :
         h' = [h EXCEPT ![s] =
                [Idle EXCEPT !.kind = op, !.pc = "fetch", !.reqs = <<q>>, !.timer = "armed"]]
    /\ UNCHANGED <<rev, pluginConfig, api>>

\* The status line and the headers arrive, or the connection fails.
ClientArrives(s) ==
    /\ h[s].kind \in ClientOps
    /\ h[s].pc = "fetch"
    /\ \E r \in ClientResponses(h[s].kind) :
         h' = [h EXCEPT ![s] =
                IF r.t # "status" \/ h[s].kind = "healthy" THEN Completes(h[s], r, "cleared")
                ELSE IF ~ResOk(r.code)
                     THEN IF h[s].kind = "episodes" THEN Completes(h[s], r, "cleared")
                          ELSE [h[s] EXCEPT !.pc = "text", !.res = r]
                ELSE [h[s] EXCEPT !.pc = "body", !.res = r, !.timer = "cleared"]]
    /\ UNCHANGED <<rev, pluginConfig, api>>

\* The timer fires and aborts the request.
ClientTimeout(s) ==
    /\ h[s].kind \in ClientOps
    /\ h[s].pc \in {"fetch", "text", "body"}
    /\ h[s].timer = "armed"
    /\ h' = [h EXCEPT ![s] =
               IF h[s].pc = "fetch" THEN Completes(h[s], Timeout, "fired")
               ELSE Completes(h[s], h[s].res, "fired")]
    /\ UNCHANGED <<rev, pluginConfig, api>>

\* res.text() of a failed request has been read.
ClientText(s) ==
    /\ h[s].kind \in ClientOps
    /\ h[s].pc = "text"
    /\ h' = [h EXCEPT ![s] = Completes(h[s], h[s].res, "cleared")]
    /\ UNCHANGED <<rev, pluginConfig, api>>

\* res.json() settles: the body has arrived and is parsed, or fails to parse.
ClientBody(s) ==
    /\ h[s].kind \in ClientOps
    /\ h[s].pc = "body"
    /\ h[s].res.body.kind # "stalled"
    /\ h' = [h EXCEPT ![s] = Completes(h[s], h[s].res, h[s].timer)]
    /\ UNCHANGED <<rev, pluginConfig, api>>

\* ------------------------------------------------------------------------
\* Tools: graphiti_search and graphiti_ingest
\* ------------------------------------------------------------------------
ToolKinds == {"graphiti_search", "graphiti_ingest"}

DefaultToolLimit == 10

ToolSnippet == 100

ToolSearchResponses ==
    SearchResponses \cup {Status(200, JsonBody(TRUE, FactsValue(TRUE, <<F1, F3>>)))}

\* An error message that names the error only
ErrorMessageNoStatus(path, e) == Lit(e.name)

\* err.message of what the client throws, or String(err)
ErrorMessage(path, e) ==
    IF e.name = "Error"
    THEN Lit("Graphiti ") \o Lit(path) \o Lit(" returned ") \o Lit(ToString(e.code)) \o Lit(": ")
    ELSE Lit(e.name)

\* The tool returns a text to the agent.
ToolReturns(hs, text) == [hs EXCEPT !.pc = "done", !.result = "text", !.text = text]

\* One numbered line per fact
FactLine(i, f) ==
    Lit(ToString(i)) \o Lit(". **") \o Lit(f.name) \o Lit("**: ") \o Lit(f.fact)
        \o Lit(" [") \o Lit(Nullish(f.valid_at, "ongoing")) \o Lit("]")

\* graphiti_search that asks client.healthy() first
ToolSearchGated(s) ==
    /\ h[s].pc = "idle"
    /\ h' = [h EXCEPT ![s] =
                [Idle EXCEPT !.kind = "graphiti_search", !.pc = "health",
                             !.reqs = <<HealthRequest>>]]
    /\ UNCHANGED <<rev, pluginConfig, api>>

\* The agent calls graphiti_search: client.search(query, limit) is awaited.
ToolSearch(s) ==
    /\ h[s].pc = "idle"
    /\ \E query \in {P_X, HEARTBEAT}, limit \in Opt({5}) :
         h' = [h EXCEPT ![s] =
                [Idle EXCEPT !.kind = "graphiti_search", !.pc = "search",
                             !.ev = [NoEvent EXCEPT !.hasPrompt = TRUE, !.prompt = query],
                             !.reqs = <<SearchRequest(query, Nullish(limit, DefaultToolLimit))>>]]
    /\ UNCHANGED <<rev, pluginConfig, api>>

\* client.search() has answered graphiti_search.
ToolAfterSearch(s) ==
    /\ h[s].kind = "graphiti_search"
    /\ h[s].pc = "search"
    /\ \E r \in ToolSearchResponses :
         LET d == ClientSearch(r)
             facts == d.data.facts
             hs == [h[s] EXCEPT !.search = r]
             failed(e) == ToolReturns(hs, Lit("Graphiti search failed: ")
                                            \o ErrorMessage("/search", e))
         IN h' = [h EXCEPT ![s] =
                IF d.thrown THEN failed(d)
                ELSE IF ~facts.isArray THEN failed(Thrown("TypeError", 0))
                ELSE IF Len(facts.items) = 0
                     THEN ToolReturns(hs, Lit("No relevant facts found in the knowledge graph."))
                ELSE IF \E i \in 1..Len(facts.items) : ~facts.items[i].isObj
                     THEN failed(Thrown("TypeError", 0))
                ELSE ToolReturns(hs,
                        Lit("Found ") \o Lit(ToString(Len(facts.items))) \o Lit(" facts:\n\n")
                            \o Join([i \in 1..Len(facts.items) |-> FactLine(i, facts.items[i])],
                                    Lit("\n")))]
    /\ UNCHANGED <<rev, pluginConfig, api>>

\* The agent calls graphiti_ingest: client.ingest([...]) is awaited.
ToolIngest(s) ==
    /\ h[s].pc = "idle"
    /\ \E n \in {50, 100, 101}, name \in Opt({"note"}), source \in Opt({"chat"}) :
         LET message == Message(Body(1, n), "system", "shiba", Nullish(name, "manual"),
                                "OpenClaw agent: " \o Nullish(source, "manual"))
         IN h' = [h EXCEPT ![s] =
                [Idle EXCEPT !.kind = "graphiti_ingest", !.pc = "ingest",
                             !.reqs = <<IngestRequest(<<message>>)>>]]
    /\ UNCHANGED <<rev, pluginConfig, api>>

\* client.ingest() has answered graphiti_ingest.
ToolAfterIngest(s) ==
    /\ h[s].kind = "graphiti_ingest"
    /\ h[s].pc = "ingest"
    /\ \E r \in IngestResponses :
         LET d == ClientIngest(r)
             content == h[s].reqs[1].messages[1].content
             hs == [h[s] EXCEPT !.res = r]
         IN h' = [h EXCEPT ![s] =
                IF d.thrown
                THEN ToolReturns(hs, Lit("Graphiti ingest failed: ")
                                        \o ErrorMessage("/messages", d))
                ELSE ToolReturns(hs,
                        Lit("Ingested into knowledge graph: \"") \o TSlice(content, ToolSnippet)
                            \o (IF TLen(content) > ToolSnippet THEN Lit("...") ELSE <<>>)
                            \o Lit("\""))]
    /\ UNCHANGED <<rev, pluginConfig, api>>

\* ------------------------------------------------------------------------
\* Specifications
\* ------------------------------------------------------------------------
TypeOK ==
    /\ rev \in Revisions
    /\ DOMAIN h \subseteq {1, 2}
    /\ \A s \in DOMAIN h :
         /\ h[s].pc \in {"idle", "health", "search", "ingest", "fetch", "text", "body", "done"}
         /\ h[s].timer \in {"none", "armed", "cleared", "fired"}
         /\ h[s].result \in {"pending", "undefined", "context", "rejected", "text"}

\* Auto-recall, as the tests configure it
InitRecall ==
    /\ rev \in {"index", "part_000a", "part_000b"}
    /\ pluginConfig \in [autoRecall : {<<TRUE>>}, autoCapture : {<<>>},
                         recallMaxFacts : Opt({5}), minPromptLength : Opt({20}),
                         apiKey : {<<>>}, groupId : {<<>>}]
    /\ api = MockApi
    /\ h = [s \in {1} |-> Idle]

NextRecall ==
    \/ \E s \in DOMAIN h : BeforeAgentStart(s)
    \/ \E s \in DOMAIN h : RecallAfterHealth(s)
    \/ \E s \in DOMAIN h : RecallAfterSearch(s)
    \/ \E s \in DOMAIN h : Return(s)

SpecRecall == InitRecall /\ [][NextRecall]_vars

\* Auto-capture with the default configuration
InitCapture ==
    /\ rev \in Revisions
    /\ pluginConfig \in [autoRecall : {<<>>}, autoCapture : Opt({TRUE}),
                         recallMaxFacts : {<<>>}, minPromptLength : {<<>>},
                         apiKey : {<<>>}, groupId : {<<>>}]
    /\ api = MockApi
    /\ h = [s \in {1} |-> Idle]

NextCapture ==
    \/ \E s \in DOMAIN h : AgentEnd(s)
    \/ \E s \in DOMAIN h : BeforeReset(s)
    \/ \E s \in DOMAIN h : AfterCompaction(s)
    \/ \E s \in DOMAIN h : BeforeCompaction(s)
    \/ \E s \in DOMAIN h : CaptureAfterHealth(s)
    \/ \E s \in DOMAIN h : CaptureAfterIngest(s)
    \/ \E s \in DOMAIN h : Return(s)

SpecCapture == InitCapture /\ [][NextCapture]_vars

\* The client called directly, as the client tests do
TestGroup == "test-group"

InitClient ==
    /\ rev = "index"
    /\ pluginConfig \in [autoRecall : {<<>>}, autoCapture : {<<>>},
                         recallMaxFacts : {<<>>}, minPromptLength : {<<>>},
                         apiKey : Opt({"secret"}), groupId : Opt({TestGroup})]
    /\ api = MockApi
    /\ h = [s \in {1} |-> Idle]

NextClient ==
    \/ \E s \in DOMAIN h : ClientCall(s)
    \/ \E s \in DOMAIN h : ClientArrives(s)
    \/ \E s \in DOMAIN h : ClientTimeout(s)
    \/ \E s \in DOMAIN h : ClientText(s)
    \/ \E s \in DOMAIN h : ClientBody(s)
    \/ \E s \in DOMAIN h : Return(s)

SpecClient == InitClient /\ [][NextClient]_vars

\* The tools, which register() always registers
InitTools ==
    /\ rev \in {"index", "part_000a", "part_000b"}
    /\ pluginConfig \in [autoRecall : {<<>>}, autoCapture : {<<>>},
                         recallMaxFacts : {<<>>}, minPromptLength : {<<>>},
                         apiKey : {<<>>}, groupId : {<<>>}]
    /\ api = MockApi
    /\ h = [s \in {1} |-> Idle]

NextTools ==
    \/ \E s \in DOMAIN h : ToolSearch(s)
    \/ \E s \in DOMAIN h : ToolAfterSearch(s)
    \/ \E s \in DOMAIN h : ToolIngest(s)
    \/ \E s \in DOMAIN h : ToolAfterIngest(s)
    \/ \E s \in DOMAIN h : Return(s)

SpecTools == InitTools /\ [][NextTools]_vars

\* register() under every setting of the two feature flags, on a host with
\* and without registerHook
InitRegister ==
    /\ rev \in {"index", "part_000a", "part_000b"}
    /\ pluginConfig \in [autoRecall : Opt(BOOLEAN), autoCapture : Opt(BOOLEAN),
                         recallMaxFacts : {<<>>}, minPromptLength : {<<>>},
                         apiKey : {<<>>}, groupId : {<<>>}]
    /\ api \in HostApis
    /\ h = [s \in {1} |-> Idle]

NextRegister ==
    \/ \E s \in DOMAIN h : BeforeAgentStart(s)
    \/ \E s \in DOMAIN h : RecallAfterHealth(s)
    \/ \E s \in DOMAIN h : RecallAfterSearch(s)
    \/ \E s \in DOMAIN h : AgentEnd(s)
    \/ \E s \in DOMAIN h : BeforeReset(s)
    \/ \E s \in DOMAIN h : AfterCompaction(s)
    \/ \E s \in DOMAIN h : CaptureAfterHealth(s)
    \/ \E s \in DOMAIN h : CaptureAfterIngest(s)
    \/ \E s \in DOMAIN h : OldApiHook(s)
    \/ \E s \in DOMAIN h : Return(s)

SpecRegister == InitRegister /\ [][NextRegister]_vars

\* Two invocations in flight at a time.  The host delivers a few events: a
\* prompt that is recalled, a heartbeat and a short prompt; conversations of 2
\* and of 4 turns; a session file of two lines and one that cannot be read.
ConcurrentPrompts == {P_BEAT \o P_BEAT \o P_BEAT, P_HEART \o P_BEAT, P_X}

ConcurrentEvents ==
    {[NoEvent EXCEPT !.hasPrompt = TRUE, !.prompt = p] : p \in ConcurrentPrompts}
        \cup {MessagesEvent(TRUE, "array", Batch(n, 0, k, k)) :
                 n \in {2, 4}, k \in {[shape |-> "string", len |-> 25]}}
        \cup {[NoEvent EXCEPT !.sessionFile = "unreadable"],
              [NoEvent EXCEPT !.sessionFile = "ok",
                              !.lines = [i \in 1..2 |-> LineOf("user201", i)]]}

InitConcurrent ==
    /\ rev \in {"index", "part_000b"}
    /\ pluginConfig \in [autoRecall : {<<>>}, autoCapture : {<<>>},
                         recallMaxFacts : {<<>>}, minPromptLength : {<<>>},
                         apiKey : {<<>>}, groupId : {<<>>}]
    /\ api = MockApi
    /\ h = [s \in {1, 2} |-> Idle]

NextConcurrent ==
    \/ \E s \in DOMAIN h : BeforeAgentStart(s) /\ h'[s].ev \in ConcurrentEvents
    \/ \E s \in DOMAIN h : RecallAfterHealth(s)
    \/ \E s \in DOMAIN h : RecallAfterSearch(s)
    \/ \E s \in DOMAIN h : AgentEnd(s) /\ h'[s].ev \in ConcurrentEvents
    \/ \E s \in DOMAIN h : BeforeReset(s) /\ h'[s].ev \in ConcurrentEvents
    \/ \E s \in DOMAIN h : AfterCompaction(s) /\ h'[s].ev \in ConcurrentEvents
    \/ \E s \in DOMAIN h : CaptureAfterHealth(s)
    \/ \E s \in DOMAIN h : CaptureAfterIngest(s)
    \/ \E s \in DOMAIN h : Return(s)

SpecConcurrent == InitConcurrent /\ [][NextConcurrent]_vars

\* The plugin as a whole, registered with the default configuration
Init ==
    /\ rev \in Revisions
    /\ pluginConfig \in [autoRecall : {<<>>}, autoCapture : {<<>>},
                         recallMaxFacts : {<<>>}, minPromptLength : {<<>>},
                         apiKey : {<<>>}, groupId : {<<>>}]
    /\ api = MockApi
    /\ h = [s \in {1} |-> Idle]

Next == NextRecall \/ NextCapture \/ NextClient \/ NextTools

Spec == Init /\ [][Next]_vars

\* ------------------------------------------------------------------------
\* Properties of the hooks
\* ------------------------------------------------------------------------
Slots == DOMAIN h

Requests(hs, op) == SelectSeq(hs.reqs, LAMBDA q : q.op = op)

\* The service answered the health check, and not with a 2xx status.
ReportsUnhealthy(hs) ==
    /\ hs.health.t # "none"
    /\ ~(hs.health.t = "status" /\ hs.health.code \in 200..299)

ReportsHealthy(hs) == hs.health.t = "status" /\ hs.health.code \in 200..299

NoOutput(hs) == hs.result # "context" /\ hs.out = <<>>

StringPrompt(hs) ==
    hs.kind = "before_agent_start" /\ hs.ev.hasPrompt /\ hs.ev.promptIsString

\* m occurs in s, character by character
Occurs(m, s) ==
    \E i \in 1..(Len(s) + 1 - Len(m)) : \A j \in 1..Len(m) : s[i + j - 1] = m[j]

\* C1: when the health check reports unhealthy, before_agent_start issues no
\* search request and returns no output.
C1_UnhealthyNoRecall ==
    \A s \in Slots :
        (h[s].kind = "before_agent_start" /\ ReportsUnhealthy(h[s]))
            => /\ Requests(h[s], "search") = <<>>
               /\ h[s].result = "undefined"
               /\ h[s].out = <<>>

\* before_agent_start has returned after an unhealthy answer to its health check.
C1_Witness ==
    \E s \in Slots :
        /\ h[s].kind = "before_agent_start" /\ h[s].pc = "done"
        /\ ReportsUnhealthy(h[s])
        /\ Len(h[s].reqs) = 1

\* C2: when the health check reports unhealthy, no capture hook (agent_end,
\* after_compaction, before_reset, before_compaction) issues an ingest
\* request, whatever the list of turns.
C2_UnhealthyNoCapture ==
    \A s \in Slots :
        (h[s].kind \in CaptureKinds /\ ReportsUnhealthy(h[s]))
            => Requests(h[s], "ingest") = <<>>

\* before_reset has returned after an unhealthy answer, with four turns that it
\* would have captured.
C2_Witness ==
    \E s \in Slots :
        /\ h[s].kind = "before_reset" /\ h[s].pc = "done"
        /\ ReportsUnhealthy(h[s])
        /\ Len(ResetTexts(h[s].ev.messages)) >= 4

\* C3: before_agent_start never throws or rejects, for every event payload and
\* every behaviour of the service.
C3_RecallNeverRejects ==
    \A s \in Slots :
        h[s].kind = "before_agent_start" => h[s].result # "rejected"

\* C3, for event objects whose prompt is missing or a string, in the revisions that
\* write no debug log outside the try block.
C3_RecallNeverRejectsStringPrompt ==
    \A s \in Slots :
        /\ h[s].kind = "before_agent_start"
        /\ rev # "index"
        /\ h[s].ev.present
        /\ ~h[s].ev.hasPrompt \/ h[s].ev.promptIsString
        => h[s].result # "rejected"

\* C4: no capture hook ever throws or rejects, for every event payload and
\* every behaviour of the service.
C4_CaptureNeverRejects ==
    \A s \in Slots :
        h[s].kind \in CaptureKinds => h[s].result # "rejected"

\* C4, for event objects, in the revisions that write no debug log outside the
\* try block.
C4_CaptureNeverRejectsGuardedLog ==
    \A s \in Slots :
        (h[s].kind \in CaptureKinds /\ rev # "index" /\ h[s].ev.present)
            => h[s].result # "rejected"

\* C5: a prompt that is absent or shorter than the configured minimum gives no
\* output and no search (no request at all).
C5_ShortPromptSkipped ==
    \A s \in Slots :
        /\ h[s].kind = "before_agent_start"
        /\ h[s].ev.present
        /\ \/ ~h[s].ev.hasPrompt
           \/ h[s].ev.promptIsString /\ Len(h[s].ev.prompt) < Cfg.minPromptLength
        => /\ h[s].reqs = <<>>
           /\ NoOutput(h[s])

\* A prompt one character short of the configured minimum has been skipped.
C5_Witness ==
    \E s \in Slots :
        /\ StringPrompt(h[s]) /\ h[s].pc = "done"
        /\ Len(h[s].ev.prompt) = Cfg.minPromptLength - 1
        /\ h[s].result = "undefined"

\* C6: a prompt that contains one of the skip markers anywhere gives no
\* output, whatever the health of the service and the facts it holds: no
\* request is issued.
C6_MarkerSkipped ==
    \A s \in Slots :
        (StringPrompt(h[s]) /\ \E m \in RecallMarkers : Occurs(m, h[s].ev.prompt))
            => /\ h[s].reqs = <<>>
               /\ NoOutput(h[s])

\* A prompt long enough, with HEARTBEAT after its first character, has been skipped.
C6_Witness ==
    \E s \in Slots :
        /\ StringPrompt(h[s]) /\ h[s].pc = "done"
        /\ Len(h[s].ev.prompt) >= Cfg.minPromptLength
        /\ Occurs(HEARTBEAT, h[s].ev.prompt)
        /\ ~StartsWith(h[s].ev.prompt, HEARTBEAT)
        /\ h[s].result = "undefined"

\* C7: a prompt that contains "boot check" gives no output, with a healthy
\* service that holds facts.
C7_BootCheckSkipped ==
    \A s \in Slots :
        (StringPrompt(h[s]) /\ Occurs(BOOT_CHECK, h[s].ev.prompt)) => NoOutput(h[s])

\* C7 in the revision that lists "boot check" among its markers.
C7_BootCheckSkippedWhereListed ==
    \A s \in Slots :
        (StringPrompt(h[s]) /\ Occurs(BOOT_CHECK, h[s].ev.prompt) /\ rev = "part_000b")
            => NoOutput(h[s])

\* The event carries fewer than 4 turns, or no list of turns.
FewTurns(hs) ==
    /\ hs.ev.present
    /\ \/ hs.ev.msgs = "absent"
       \/ hs.ev.msgs = "array" /\ Len(hs.ev.messages) < 4

FourTurns(hs, floor) ==
    /\ hs.ev.present
    /\ hs.ev.msgs = "array"
    /\ Len(hs.ev.messages) = 4
    /\ \A i \in 1..4 :
         LET m == hs.ev.messages[i] IN
         /\ m.obj /\ m.ctype = "string"
         /\ m.role = (IF i % 2 = 1 THEN "user" ELSE "assistant")
         /\ TLen(m.text) >= floor

\* The content without the role prefixes and the separators
Payload(content) ==
    SelectSeq(content, LAMBDA run : run.k \notin {"user: ", "assistant: ", "\n\n"})

\* The texts of the four turns one after the other, each cut to cap characters
FourTexts(hs, cap) ==
    TSlice(hs.ev.messages[1].text, cap) \o TSlice(hs.ev.messages[2].text, cap)
        \o TSlice(hs.ev.messages[3].text, cap) \o TSlice(hs.ev.messages[4].text, cap)

TriggerName(kind) ==
    CASE kind = "before_reset" -> "OpenClaw auto-capture: session reset"
      [] kind = "before_compaction" -> "pre-compaction conversation"
      [] OTHER -> "OpenClaw auto-capture: agent conversation"

TurnCap(kind) == IF kind = "before_reset" THEN 1000 ELSE 2000

\* One ingest request with one message, of role_type "user", whose content holds
\* the four turns' texts in order (each cut to cap) and whose
\* source_description names the hook
OneEpisodeOfFour(hs, cap) ==
    LET q == Requests(hs, "ingest") IN
    /\ Len(q) = 1
    /\ Len(q[1].messages) = 1
    /\ Payload(q[1].messages[1].content) = FourTexts(hs, cap)
    /\ q[1].messages[1].role_type = "user"
    /\ q[1].messages[1].source_description = TriggerName(hs.kind)

\* C9 as stated: 4 alternating turns of at least 20 characters and a healthy
\* service give one ingest of one message with the whole text of the 4 turns.
C9_FourTurnsCapturedWhole ==
    \A s \in Slots :
        /\ h[s].kind \in {"agent_end", "before_reset", "before_compaction"}
        /\ FourTurns(h[s], 20)
        /\ ReportsHealthy(h[s])
        => OneEpisodeOfFour(h[s], 12000)

\* C9: given exactly 4 alternating user/assistant string turns of more than 20
\* characters each and a healthy service, before_reset and before_compaction
\* issue exactly one ingest request with exactly one message: its content
\* holds the four turns' texts in order, each cut to the hook's cap per turn,
\* its role_type is "user" and its source_description names the hook.
C9_FourTurnsCaptured ==
    \A s \in Slots :
        /\ h[s].kind \in {"before_reset", "before_compaction"}
        /\ FourTurns(h[s], 21)
        /\ ReportsHealthy(h[s])
        => OneEpisodeOfFour(h[s], TurnCap(h[s].kind))

\* before_reset has ingested four turns, one of them longer than its cap.
C9_Witness ==
    \E s \in Slots :
        /\ h[s].kind = "before_reset" /\ h[s].pc = "done"
        /\ FourTurns(h[s], 21)
        /\ ReportsHealthy(h[s])
        /\ TLen(h[s].ev.messages[4].text) > 1000
        /\ Len(Requests(h[s], "ingest")) = 1

\* 25 turns, each a user or assistant string of more than 20 characters
TwentyFiveEligible(hs) ==
    /\ hs.ev.present
    /\ hs.ev.msgs = "array"
    /\ Len(hs.ev.messages) = 25
    /\ \A i \in 1..25 :
         LET m == hs.ev.messages[i] IN
         /\ m.obj /\ m.ctype = "string" /\ m.role \in {"user", "assistant"}
         /\ TLen(m.text) > 20

\* The turns whose text the content holds, in the order it holds them
TurnsIn(content) ==
    LET bodies == SelectSeq(content, LAMBDA run : run.k = "body")
    IN [i \in 1..Len(bodies) |-> bodies[i].id]

\* C10: given 25 eligible turns and a healthy service, before_reset issues one
\* ingest request whose content holds turns of the most recent 20 only, in
\* their order and starting with the 6th turn: none of the 5 oldest, and all
\* of the 20 when the content is below the limit of an episode.
C10_ResetKeepsLastTwenty ==
    \A s \in Slots :
        /\ h[s].kind = "before_reset"
        /\ TwentyFiveEligible(h[s])
        /\ ReportsHealthy(h[s])
        => LET q == Requests(h[s], "ingest")
               content == q[1].messages[1].content
               turns == TurnsIn(content)
           IN /\ Len(q) = 1
              /\ Len(q[1].messages) = 1
              /\ Len(turns) \in 1..20
              /\ \A i \in 1..Len(turns) : turns[i] = 5 + i
              /\ TLen(content) < 12000 => Len(turns) = 20

\* before_reset has ingested a batch of 25 eligible turns, short enough for the
\* 20 most recent to fit.
C10_Witness ==
    \E s \in Slots :
        /\ h[s].kind = "before_reset" /\ h[s].pc = "done"
        /\ TwentyFiveEligible(h[s])
        /\ ReportsHealthy(h[s])
        /\ Len(Requests(h[s], "ingest")) = 1
        /\ LET turns == TurnsIn(Requests(h[s], "ingest")[1].messages[1].content)
           IN Len(turns) = 20 /\ turns[20] = 25

\* The messages of the ingest requests a handler has issued
Submitted(hs) ==
    LET q == Requests(hs, "ingest")
    IN {q[i].messages[j] : i \in 1..Len(q), j \in 1..1}

\* C11: every message a capture hook submits has a content of at most 12,000
\* characters, whatever the number and the length of the turns.
C11_EpisodeAtMostLimit ==
    \A s \in Slots :
        h[s].kind \in CaptureKinds
            => /\ \A i \in 1..Len(Requests(h[s], "ingest")) :
                    Len(Requests(h[s], "ingest")[i].messages) = 1
               /\ \A m \in Submitted(h[s]) : TLen(m.content) <= 12000

\* before_reset has submitted 12,000 characters of a sample that is longer.
C11_Witness ==
    \E s \in Slots :
        /\ h[s].kind = "before_reset" /\ h[s].pc = "done"
        /\ TLen(ResetSampleText(ResetTexts(h[s].ev.messages))) > 12000
        /\ \E m \in Submitted(h[s]) : TLen(m.content) = 12000

\* The facts of the answer to the search of this invocation
Found(hs) == hs.search.body.facts.items

\* The block holds the heading, then for the i-th fact the four parts of its
\* bullet, a line break between two bullets, and the closing tag.
BlockOf(out, facts) ==
    LET n == Len(facts) IN
    /\ Len(out) = 5 * n + 3
    /\ out[1] = "<graphiti-context>\n"
    /\ out[2] = "Relevant knowledge graph facts (auto-recalled):\n"
    /\ \A i \in 1..n :
         /\ out[5 * i - 2] = "- **"
         /\ out[5 * i - 1] = facts[i].name
         /\ out[5 * i] = "**: "
         /\ out[5 * i + 1] = facts[i].fact
         /\ out[5 * i + 2] = "\n"
    /\ out[5 * n + 3] = "</graphiti-context>"

\* C12: whenever before_agent_start produces output, the output is the
\* <graphiti-context> block with exactly one bullet "- **name**: fact" per
\* fact of the answer to this invocation's search, in the order of the answer.
C12_OneBulletPerFact ==
    \A s \in Slots :
        (h[s].kind = "before_agent_start" /\ (h[s].result = "context" \/ h[s].out # <<>>))
            => /\ h[s].result = "context"
               /\ h[s].search.t = "status"
               /\ Len(Requests(h[s], "search")) = 1
               /\ Found(h[s]) # <<>>
               /\ BlockOf(h[s].out, Found(h[s]))

\* before_agent_start has returned a block for an answer that holds the same
\* fact twice.
C12_Witness ==
    \E s \in Slots :
        /\ h[s].kind = "before_agent_start" /\ h[s].pc = "done"
        /\ h[s].result = "context"
        /\ Found(h[s]) = <<F1, F1>>

\* The answer is a status line with a 2xx status.
Success(r) == r.t = "status" /\ r.code \in 200..299

\* A call of the client has completed.
Called(hs, ops) == hs.kind \in ops /\ hs.pc = "done"

\* C13: healthy() never throws; it returns true exactly when the health
\* request completed with a 2xx status, and false for any other status, a
\* network error and a timeout.
C13_HealthyIffSuccess ==
    \A s \in Slots :
        Called(h[s], {"healthy"})
            => /\ ~h[s].ret.thrown
               /\ h[s].ret.data.kind = "bool"
               /\ h[s].ret.data.success = Success(h[s].res)

\* healthy() has returned true for a 204.
C13_Witness ==
    \E s \in Slots :
        /\ Called(h[s], {"healthy"})
        /\ h[s].res.t = "status" /\ h[s].res.code = 204
        /\ h[s].ret.data.success

\* C14: search() and getMemory() fail with an error that carries the status
\* whenever the status is not 2xx; for a 2xx answer whose body is a JSON
\* object they return its facts unchanged, or an empty array when the body
\* has no facts field.
C14_SearchStatusAndFacts ==
    \A s \in Slots :
        Called(h[s], {"search", "getMemory"})
            => /\ (h[s].res.t = "status" /\ ~Success(h[s].res))
                    => (h[s].ret.thrown /\ h[s].ret.name = "Error"
                            /\ h[s].ret.code = h[s].res.code)
               /\ (Success(h[s].res) /\ h[s].res.body.kind = "json")
                    => /\ ~h[s].ret.thrown
                       /\ h[s].ret.data.facts =
                            (IF h[s].res.body.hasFacts THEN h[s].res.body.facts
                             ELSE [isArray |-> TRUE, items |-> <<>>])

\* getMemory() has returned an empty array for a body without facts.
C14_Witness ==
    \E s \in Slots :
        /\ Called(h[s], {"getMemory"})
        /\ Success(h[s].res) /\ h[s].res.body.kind = "json" /\ ~h[s].res.body.hasFacts
        /\ h[s].ret.data.facts.items = <<>>

\* C15: ingest() takes every status from 200 to 299 for a success: it raises
\* no error and returns the body of the answer unchanged (so for a 202); for
\* any other status it fails with an error.
C15_IngestAcceptsAll2xx ==
    \A s \in Slots :
        Called(h[s], {"ingest"})
            => /\ (Success(h[s].res) /\ h[s].res.body.kind \in {"json", "null"})
                    => (~h[s].ret.thrown /\ h[s].ret.data = h[s].res.body)
               /\ (h[s].res.t = "status" /\ ~Success(h[s].res)) => h[s].ret.thrown

\* ingest() has returned the body of a 202 answer.
C15_Witness ==
    \E s \in Slots :
        /\ Called(h[s], {"ingest"})
        /\ h[s].res.t = "status" /\ h[s].res.code = 202
        /\ ~h[s].ret.thrown
        /\ h[s].ret.data.success
        /\ h[s].ret.data.message = "Messages added to processing queue"

\* C16: episodes() never throws or rejects.
C16_EpisodesNeverRejects ==
    \A s \in Slots : Called(h[s], {"episodes"}) => ~h[s].ret.thrown

\* C16 for the failures caught in the client: an unreachable host, a timeout
\* and a status that is not 2xx give an empty array.
C16_EpisodesEmptyOnFailure ==
    \A s \in Slots :
        (Called(h[s], {"episodes"}) /\ ~Success(h[s].res))
            => (~h[s].ret.thrown /\ h[s].ret.data.kind = "array"
                    /\ h[s].ret.data.facts.items = <<>>)

\* C17: with an apiKey configured, every request the client sends carries
\* Authorization: Bearer <apiKey>.
C17_TokenOnEveryRequest ==
    \A s \in Slots :
        (h[s].kind \in ClientOps /\ pluginConfig.apiKey # <<>>)
            => \A i \in 1..Len(h[s].reqs) :
                    h[s].reqs[i].headers.authorization = pluginConfig.apiKey

\* C18: with no apiKey configured, no request the client sends carries an
\* Authorization header.
C18_NoTokenNoHeader ==
    \A s \in Slots :
        (h[s].kind \in ClientOps /\ pluginConfig.apiKey = <<>>)
            => \A i \in 1..Len(h[s].reqs) : h[s].reqs[i].headers.authorization = <<>>

\* ingest() has sent its request with no apiKey configured.
C18_Witness ==
    \E s \in Slots :
        /\ h[s].kind = "ingest" /\ h[s].pc = "fetch"
        /\ pluginConfig.apiKey = <<>>
        /\ Len(h[s].reqs) = 1
        /\ h[s].reqs[1].headers.contentType

\* C19: whatever a call of the client waits for (the headers, the error text,
\* the body), its timer is set, so the wait ends.
C19_EveryWaitHasTimer ==
    \A s \in Slots :
        (h[s].kind \in ClientOps /\ h[s].pc \in {"fetch", "text", "body"})
            => h[s].timer = "armed"

\* C19, second half: a call that timed out ends as it does for a network
\* failure (healthy false, episodes [], the others an error).
C19_TimeoutLikeNetworkFailure ==
    \A s \in Slots :
        (Called(h[s], ClientOps) /\ h[s].res.t \in {"timeout", "neterr"})
            => IF h[s].kind \in {"healthy", "episodes"}
               THEN ~h[s].ret.thrown
                    /\ (h[s].kind = "healthy" => ~h[s].ret.data.success)
                    /\ (h[s].kind = "episodes" => h[s].ret.data.facts.items = <<>>)
               ELSE h[s].ret.thrown

\* In one invocation: at most one health check and at most one other request.
AtMostOnce(hs) ==
    /\ Len(Requests(hs, "health")) <= 1
    /\ Len(hs.reqs) - Len(Requests(hs, "health")) <= 1

\* What a step may do to the requests of an invocation: the first request is
\* sent when the invocation starts; a health check that succeeded may be
\* followed by one search or ingest; an answer to any other request, good or
\* bad, is followed by no request.
NoRequestAgain(a, b) ==
    /\ a.pc = "idle" => Len(b.reqs) <= 1
    /\ a.pc = "health"
         => \/ b.reqs = a.reqs /\ b.pc = "done"
            \/ /\ Success(b.health)
               /\ Len(b.reqs) = 2 /\ b.reqs[1] = a.reqs[1]
               /\ b.reqs[2].op \in {"search", "ingest"}
    /\ a.pc \in {"search", "ingest"} => (b.reqs = a.reqs /\ b.pc = "done")
    /\ a.pc \in {"fetch", "text", "body"}
         => (b.reqs = a.reqs /\ b.pc \in {"text", "body", "done"})
    /\ a.pc = "done" => b.reqs = <<>>

\* C20: no request is ever retried: one invocation of a hook or a tool issues
\* at most one health check and at most one search or ingest, a call of the
\* client sends one request, and a failed or timed-out request ends the
\* invocation without being sent again.
C20_NoRetry ==
    /\ [](\A s \in Slots : AtMostOnce(h[s]))
    /\ [][\A s \in Slots : NoRequestAgain(h[s], h'[s])]_vars

\* before_agent_start has returned after a search that failed, with the one
\* health check and the one search it sent.
C20_Witness ==
    \E s \in Slots :
        /\ h[s].kind = "before_agent_start" /\ h[s].pc = "done"
        /\ h[s].search.t # "none" /\ ~Success(h[s].search)
        /\ Len(h[s].reqs) = 2

\* ------------------------------------------------------------------------
\* Properties of the tools
\* ------------------------------------------------------------------------
\* The answer the tool's client call got
ToolAnswer(hs) == IF hs.kind = "graphiti_search" THEN hs.search ELSE hs.res

FailurePrefix(kind) ==
    IF kind = "graphiti_search" THEN "Graphiti search failed: "
    ELSE "Graphiti ingest failed: "

\* The text starts with the run p.
ReportsFailure(text, p) == Len(text) >= 1 /\ text[1].k = p

\* The text names the status code among its runs.
NamesStatus(text, code) == \E i \in 1..Len(text) : text[i].k = ToString(code)

\* C21: graphiti_search and graphiti_ingest never throw; when the client call
\* fails (non-2xx status, network error, timeout) the tool returns a text that
\* starts with "Graphiti search failed: " or "Graphiti ingest failed: ", and
\* for a non-2xx status the text names the status code.
C21_ToolsReportFailure ==
    \A s \in Slots :
        (h[s].kind \in ToolKinds /\ h[s].pc = "done")
            => /\ h[s].result = "text"
               /\ ~Success(ToolAnswer(h[s]))
                    => /\ ReportsFailure(h[s].text, FailurePrefix(h[s].kind))
                       /\ ToolAnswer(h[s]).t = "status"
                            => NamesStatus(h[s].text, ToolAnswer(h[s]).code)

\* graphiti_ingest has returned a text that reports a non-2xx answer.
C21_Witness ==
    \E s \in Slots :
        /\ h[s].kind = "graphiti_ingest" /\ h[s].pc = "done"
        /\ ToolAnswer(h[s]).t = "status" /\ ~Success(ToolAnswer(h[s]))
        /\ ReportsFailure(h[s].text, "Graphiti ingest failed: ")

\* ------------------------------------------------------------------------
\* Properties of register()
\* ------------------------------------------------------------------------
RecallEnabled == pluginConfig.autoRecall # <<FALSE>>

CaptureEnabled == pluginConfig.autoCapture # <<FALSE>>

\* Every event a handler of the plugin is registered on, with api.on or with
\* registerHook
Registered == Hooks \cup OldApiHooks

\* C22: register() registers a handler on before_agent_start if and only if
\* autoRecall is enabled and handlers on the capture events if and only if
\* autoCapture is enabled; with both disabled nothing is registered, and with
\* autoRecall on and autoCapture off before_agent_start alone is.
C22_HooksFollowFlags ==
    /\ ("before_agent_start" \in Registered) <=> RecallEnabled
    /\ (Registered \cap CaptureKinds # {}) <=> CaptureEnabled
    /\ Registered \subseteq {"before_agent_start"} \cup CaptureKinds
    /\ \A s \in Slots :
         /\ h[s].kind \in {"before_agent_start", "graphiti-recall-test"} => RecallEnabled
         /\ h[s].kind \in CaptureKinds => CaptureEnabled

\* C22, for the handlers registered with api.on alone: before_agent_start is
\* among them exactly when autoRecall is enabled, the capture events exactly
\* when autoCapture is enabled.
C22_ApiOnFollowsFlags ==
    /\ ("before_agent_start" \in Hooks) <=> RecallEnabled
    /\ (Hooks \cap CaptureKinds # {}) <=> CaptureEnabled
    /\ Hooks \subseteq {"before_agent_start"} \cup CaptureKinds
    /\ \A s \in Slots :
         /\ h[s].kind = "before_agent_start" => RecallEnabled
         /\ h[s].kind \in CaptureKinds => CaptureEnabled

\* C23: with a configuration that does not set autoRecall, register() installs
\* no handler on before_agent_start (none ever runs), while the capture hooks
\* are installed when autoCapture is not set either.
C23_RecallOffByDefault ==
    pluginConfig.autoRecall = <<>>
        => /\ "before_agent_start" \notin Hooks
           /\ \A s \in Slots : h[s].kind # "before_agent_start"
           /\ pluginConfig.autoCapture = <<>> => Hooks \cap CaptureKinds # {}

\* C23, the half about capture: with autoCapture not set the capture hooks
\* are installed.
C23_CaptureOnByDefault ==
    pluginConfig.autoCapture = <<>> => Hooks \cap CaptureKinds # {}

\* The search requests of a recall invocation
RecallSearches(hs) ==
    IF hs.kind = "before_agent_start" THEN Requests(hs, "search") ELSE <<>>

\* C24: the recall search carries the prompt as its query and the configured
\* recallMaxFacts as max_facts, and max_facts is 1 when recallMaxFacts is not
\* configured.
C24_SearchArguments ==
    \A s \in Slots :
        \A i \in 1..Len(RecallSearches(h[s])) :
            LET q == RecallSearches(h[s])[i] IN
            /\ q.query = h[s].ev.prompt
            /\ q.max_facts = Nullish(pluginConfig.recallMaxFacts, 1)

\* C24, without the default: the query is the prompt, and max_facts is the
\* configured recallMaxFacts when one is configured.
C24_SearchArgumentsConfigured ==
    \A s \in Slots :
        \A i \in 1..Len(RecallSearches(h[s])) :
            LET q == RecallSearches(h[s])[i] IN
            /\ q.query = h[s].ev.prompt
            /\ pluginConfig.recallMaxFacts # <<>>
                 => q.max_facts = pluginConfig.recallMaxFacts[1]

\* C25: every message of every ingest request (graphiti_ingest, agent_end,
\* after_compaction, before_reset, before_compaction) carries a role that is
\* not the empty string.
C25_RoleNeverEmpty ==
    \A s \in Slots : \A m \in Submitted(h[s]) : m.role # ""

\* A capture hook has submitted an episode.
C25_Witness ==
    \E s \in Slots :
        /\ h[s].kind \in CaptureKinds
        /\ h[s].pc = "done"
        /\ \E m \in Submitted(h[s]) : m.role = "conversation"

\* ------------------------------------------------------------------------
\* Properties of concurrent invocations
\* ------------------------------------------------------------------------
\* What an invocation was given: its hook, its event, the answers of the
\* service to its requests, and whether it ended with an exception outside
\* its try block (the write to the debug log failed).
Given(hs) == <<hs.kind, hs.pc, hs.ev, hs.health, hs.search, hs.res, hs.result = "rejected">>

\* A step is a step of one invocation: it leaves the other invocations and
\* the configuration as they are.
OneInvocationSteps ==
    /\ rev' = rev /\ pluginConfig' = pluginConfig /\ api' = api
    /\ \E s \in Slots : \A t \in Slots \ {s} : h'[t] = h[t]

FourBlockTurns(hs) ==
    /\ hs.ev.present
    /\ hs.ev.msgs = "array"
    /\ Len(hs.ev.messages) = 4
    /\ \A i \in 1..4 :
         LET m == hs.ev.messages[i] IN
         /\ m.obj /\ m.ctype = "blocks"
         /\ m.role = (IF i % 2 = 1 THEN "user" ELSE "assistant")

\* One ingest request whose content holds the text of the text blocks of the
\* four turns, in order, and nothing of the other blocks
BlockTextsIngested(hs) ==
    LET q == Requests(hs, "ingest") IN
    /\ Len(q) = 1
    /\ Len(q[1].messages) = 1
    /\ Payload(q[1].messages[1].content)
         = [i \in 1..4 |-> hs.ev.messages[i].blocks[2].text[1]]

\* C27: a turn's content may be a sequence of typed blocks, of which the text
\* blocks alone contribute: 4 user/assistant turns given as blocks, with a
\* healthy service, are ingested by every capture hook as one episode holding
\* the texts of their text blocks.
C27_BlockTurnsCaptured ==
    \A s \in Slots :
        /\ h[s].kind \in {"agent_end", "before_reset", "before_compaction"}
        /\ FourBlockTurns(h[s])
        /\ ReportsHealthy(h[s])
        => BlockTextsIngested(h[s])

\* C27 for agent_end and before_compaction, which read block contents.
C27_BlockTurnsCapturedWhereRead ==
    \A s \in Slots :
        /\ h[s].kind \in {"agent_end", "before_compaction"}
        /\ FourBlockTurns(h[s])
        /\ ReportsHealthy(h[s])
        => BlockTextsIngested(h[s])

\* The search succeeded and found nothing: a 2xx answer whose body has an
\* empty facts array, or no facts at all.
FoundNothing(r) ==
    /\ Success(r)
    /\ r.body.kind = "json"
    /\ ~r.body.hasFacts \/ (r.body.facts.isArray /\ r.body.facts.items = <<>>)

\* C28: when the recall search succeeds with an empty fact list,
\* before_agent_start returns nothing: no <graphiti-context> block, not even
\* an empty one.
C28_EmptyRecallNoOutput ==
    \A s \in Slots :
        (h[s].kind = "before_agent_start" /\ FoundNothing(h[s].search))
            => /\ h[s].pc = "done"
               /\ h[s].result = "undefined"
               /\ h[s].out = <<>>

\* before_agent_start has returned after a search that gave "facts": [].
C28_Witness ==
    \E s \in Slots :
        /\ h[s].kind = "before_agent_start" /\ h[s].pc = "done"
        /\ FoundNothing(h[s].search) /\ h[s].search.body.hasFacts
        /\ Len(Requests(h[s], "search")) = 1

\* The prompt passes the length check and the marker check of the revision.
PromptEligible(ev) ==
    /\ ev.present /\ ev.hasPrompt /\ ev.promptIsString
    /\ Len(ev.prompt) >= Nullish(pluginConfig.minPromptLength, DefaultMinPromptLength)
    /\ \A m \in RecallMarkers : ~Occurs(m, ev.prompt)

\* C29: in before_agent_start the checks come in the order feature flag,
\* prompt length, skip markers, health: the health check is requested only
\* when autoRecall is on and the prompt is long enough and holds no skip
\* marker, and it is the first request; the search is requested only after
\* the health check of the same invocation was answered with a success.
C29_RecallGateOrder ==
    \A s \in Slots :
        h[s].kind = "before_agent_start"
            => /\ h[s].reqs # <<>>
                    => /\ RecallEnabled
                       /\ PromptEligible(h[s].ev)
                       /\ h[s].reqs[1].op = "health"
               /\ Requests(h[s], "search") # <<>>
                    => /\ Len(h[s].reqs) = 2
                       /\ h[s].reqs[2].op = "search"
                       /\ ReportsHealthy(h[s])

\* before_agent_start is waiting for the search it requested after a healthy
\* answer.
C29_Witness ==
    \E s \in Slots :
        /\ h[s].kind = "before_agent_start" /\ h[s].pc = "search"
        /\ ReportsHealthy(h[s])
        /\ Len(h[s].reqs) = 2

\* The turns of the event from which the hook extracts a line
UsableTurns(hs) ==
    {i \in 1..Len(hs.ev.messages) :
        LET m == hs.ev.messages[i] IN
        IF hs.kind = "before_reset"
        THEN m.obj /\ m.role \in {"user", "assistant"}
                /\ m.ctype = "string" /\ TLen(m.text) > 20
        ELSE IF hs.kind = "before_compaction" THEN CompactionUsable(m)
        ELSE m.obj /\ m.role \in {"user", "assistant"}
                /\ (m.ctype = "string" \/ (m.ctype = "blocks" /\ TextBlocks(m.blocks) # <<>>))}

\* The order of the steps of one capture invocation: no request for an event
\* of fewer than 4 turns; the health check first; an ingest only as the second
\* request, after a healthy answer, with at least 2 usable lines extracted.
CaptureStepsInOrder(hs) ==
    /\ hs.reqs # <<>> => (~FewTurns(hs) /\ hs.reqs[1].op = "health")
    /\ Requests(hs, "ingest") # <<>>
         => /\ Len(hs.reqs) = 2
            /\ hs.reqs[2].op = "ingest"
            /\ ReportsHealthy(hs)
            /\ Cardinality(UsableTurns(hs)) >= 2

HookKinds == {"before_agent_start"} \cup CaptureKinds

\* The invocation has got past its input checks.
PastInputChecks(hs) == hs.pc \in {"health", "search", "ingest"} \/ hs.health.t # "none"

\* What the invocation does follows from the answer to its own health check:
\* it has asked for the health itself, as its first request; after a healthy
\* answer the recall has searched and before_reset, given two usable turns,
\* has ingested; after an unhealthy answer it has ended with no other request.
FollowsOwnHealth(hs) ==
    /\ PastInputChecks(hs)
         => (Len(Requests(hs, "health")) = 1 /\ hs.reqs[1].op = "health")
    /\ Len(hs.reqs) > 1 => ReportsHealthy(hs)
    /\ ReportsUnhealthy(hs) => (Len(hs.reqs) = 1 /\ hs.pc = "done")
    /\ (hs.kind = "before_agent_start" /\ ReportsHealthy(hs))
         => Len(Requests(hs, "search")) = 1
    /\ (hs.kind = "before_reset" /\ ReportsHealthy(hs) /\ hs.ev.msgs = "array"
            /\ Cardinality(UsableTurns(hs)) >= 2)
         => Len(Requests(hs, "ingest")) = 1

\* C31: the health of the service is never cached: every invocation that gets
\* past its input checks asks for it itself, proceeds when its own answer is
\* healthy and skips when it is unhealthy, whatever answer another invocation
\* got before it.
C31_HealthNeverCached ==
    \A s \in Slots : h[s].kind \in HookKinds => FollowsOwnHealth(h[s])

\* One invocation has ended on an unhealthy answer and another of the same
\* hook, beside it, has gone on to its search or ingest on a healthy one.
C31_Witness ==
    \E s, t \in Slots :
        /\ h[s].kind = h[t].kind /\ h[s].kind \in {"before_agent_start", "before_reset"}
        /\ h[t].pc = "done" /\ ReportsUnhealthy(h[t]) /\ Len(h[t].reqs) = 1
        /\ ReportsHealthy(h[s]) /\ Len(h[s].reqs) = 2

\* ------------------------------------------------------------------------
\* Properties of the limits
\* ------------------------------------------------------------------------
MinimumLength == Nullish(pluginConfig.minPromptLength, DefaultMinPromptLength)

\* C32: a prompt exactly as long as the configured minimum is eligible: with
\* no skip marker in it, before_agent_start asks for the health of the
\* service (unless the write to the debug log threw) and, on a healthy
\* answer, issues one search for the prompt.
C32_MinimumLengthEligible ==
    \A s \in Slots :
        /\ StringPrompt(h[s])
        /\ Len(h[s].ev.prompt) = MinimumLength
        /\ \A m \in RecallMarkers : ~Occurs(m, h[s].ev.prompt)
        => /\ h[s].result # "rejected" => Len(Requests(h[s], "health")) = 1
           /\ ReportsHealthy(h[s])
                => /\ Len(Requests(h[s], "search")) = 1
                   /\ Requests(h[s], "search")[1].query = h[s].ev.prompt

\* before_agent_start is searching for a prompt of exactly 20 characters, the
\* configured minimum.
C32_Witness ==
    \E s \in Slots :
        /\ StringPrompt(h[s]) /\ h[s].pc = "search"
        /\ pluginConfig.minPromptLength = <<20>>
        /\ Len(h[s].ev.prompt) = 20
        /\ ReportsHealthy(h[s])

\* The length of the text of a turn given as a string or as blocks
TurnLength(m) ==
    IF m.ctype = "string" THEN TLen(m.text)
    ELSE TLen(Join(TextBlocks(m.blocks), Lit("\n")))

Least(a, b) == IF a <= b THEN a ELSE b

\* Every piece of a turn in the content belongs to a turn of the user or the
\* assistant; the first piece of a line follows the prefix "{role}: "; no turn
\* contributes more than cap characters, and a turn that is not the last of
\* the content contributes its text up to cap characters.
LinesOfTurns(hs, content, cap) ==
    \A j \in 1..Len(content) :
        content[j].k = "body"
            => LET m == hs.ev.messages[content[j].id] IN
               /\ m.role \in {"user", "assistant"}
               /\ j > 1
               /\ content[j - 1].k = m.role \o ": "
               /\ content[j].n <= cap
               /\ (m.ctype = "string" /\ TLen(m.text) = TurnLength(m)
                     /\ Len(m.text) = 1 /\ j < Len(content))
                    => content[j].n = Least(cap, TurnLength(m))

AbortedUnhealthy(hs) ==
    /\ hs.kind \in HookKinds
    /\ hs.pc = "done"
    /\ ReportsUnhealthy(hs)

Warned(hs) == \E i \in 1..Len(hs.logs) : hs.logs[i].lvl = "warn"

\* C34: a recall or capture hook that stops because the service is unhealthy
\* has logged a warning and resolves without an error.
C34_UnhealthyAbortWarns ==
    \A s \in Slots :
        AbortedUnhealthy(h[s]) => (Warned(h[s]) /\ h[s].result = "undefined")

\* The part of C34 that holds in every revision: the hook resolves with
\* undefined, adds no context and issues no request after the health check.
C34_UnhealthyAbortNoError ==
    \A s \in Slots :
        AbortedUnhealthy(h[s])
            => (h[s].result = "undefined" /\ NoOutput(h[s]) /\ Len(h[s].reqs) = 1)

\* The warning is logged by the hooks of index.ts and of the first revision.
C34_UnhealthyAbortWarnsWhereLogged ==
    \A s \in Slots :
        (AbortedUnhealthy(h[s]) /\ rev # "part_000b") => Warned(h[s])

\* The group id the client was constructed with
ConstructedGroup == Nullish(pluginConfig.groupId, DefaultGroupId)

ScopedOps == {"search", "get-memory", "ingest", "episodes"}

\* The place of the group id in a request of each operation
ScopeField(op) ==
    CASE op = "search" -> "group_ids"
      [] op = "episodes" -> "path"
      [] OTHER -> "group_id"

RequestsScoped ==
    \A s \in Slots :
        \A i \in 1..Len(h[s].reqs) :
            h[s].reqs[i].op \in ScopedOps
                => /\ h[s].reqs[i].scope.at = ScopeField(h[s].reqs[i].op)
                   /\ h[s].reqs[i].scope.ids = <<ConstructedGroup>>

\* C35: every search, get-memory, ingest and episodes request names exactly
\* the group id the client was constructed with, in group_ids, group_id or
\* the path, and no step changes the configuration the client was built from.
C35_RequestsScopedToGroup ==
    /\ []RequestsScoped
    /\ [][pluginConfig' = pluginConfig]_vars

\* episodes() of a client constructed for "test-group" has returned after
\* its request to /episodes/test-group.
C35_Witness ==
    \E s \in Slots :
        /\ h[s].pc = "done"
        /\ pluginConfig.groupId = <<TestGroup>>
        /\ Len(h[s].reqs) = 1
        /\ h[s].reqs[1].op = "episodes"
        /\ h[s].reqs[1].scope = [at |-> "path", ids |-> <<TestGroup>>]

\* The lines a capture hook joins, before the cut to the limit of an episode
JoinedLines(hs) ==
    IF hs.kind = "before_reset" THEN ResetSampleText(ResetTexts(hs.ev.messages))
    ELSE EpisodeContent(AgentEndTexts(hs.ev.messages))

\* c holds the first k characters of j: the same pieces in the same order,
\* the last of them possibly shorter than in j.
FirstCharacters(c, j, k) ==
    /\ TLen(c) = k
    /\ c # <<>>
    /\ Len(c) <= Len(j)
    /\ \A i \in 1..(Len(c) - 1) : c[i] = j[i]
    /\ c[Len(c)].k = j[Len(c)].k
    /\ c[Len(c)].id = j[Len(c)].id
    /\ c[Len(c)].n <= j[Len(c)].n

\* C36: when the lines joined by before_reset or agent_end exceed 12,000
\* characters, the content submitted is their first 12,000 characters: the
\* oldest retained line comes first and whole, and the end is cut off,
\* possibly inside a line.
C36_FirstCharactersKept ==
    \A s \in Slots :
        (h[s].kind \in {"before_reset", "agent_end"} /\ h[s].ev.msgs = "array")
            => \A m \in Submitted(h[s]) :
                   LET joined == JoinedLines(h[s]) IN
                   TLen(joined) > EpisodeLimit
                       => /\ FirstCharacters(m.content, joined, EpisodeLimit)
                          /\ TurnsIn(m.content)[1] = TurnsIn(joined)[1]
                          /\ Len(TurnsIn(m.content)) <= Len(TurnsIn(joined))
                          /\ TLen(m.content) < TLen(joined)

\* agent_end has submitted 12,000 characters of ten lines of 2000 characters
\* each: the content ends inside the sixth line.
C36_Witness ==
    \E s \in Slots :
        /\ h[s].kind = "agent_end" /\ h[s].pc = "done"
        /\ Len(TurnsIn(JoinedLines(h[s]))) = 10
        /\ TLen(JoinedLines(h[s])) > 20000
        /\ \E m \in Submitted(h[s]) :
              /\ TLen(m.content) = EpisodeLimit
              /\ Len(TurnsIn(m.content)) = 6
              /\ m.content[Len(m.content)].k = "body"
              /\ m.content[Len(m.content)].n < 2000

\* The request a tool issues
ToolOp(kind) == IF kind = "graphiti_search" THEN "search" ELSE "ingest"

\* The service has failed the request of the tool: it answered with a status
\* outside 2xx or did not answer.
ServiceDown(hs) ==
    LET r == IF hs.kind = "graphiti_search" THEN hs.search ELSE hs.res
    IN r.t # "none" /\ ~(r.t = "status" /\ r.code \in 200..299)

\* C37: an invocation of graphiti_search or graphiti_ingest issues exactly one
\* request, the search or the ingest, and no health check, whether the
\* service answers it or not.
C37_ToolsSkipHealthGate ==
    \A s \in Slots :
        h[s].kind \in ToolKinds
            => /\ Len(h[s].reqs) = 1
               /\ h[s].reqs[1].op = ToolOp(h[s].kind)
               /\ Requests(h[s], "health") = <<>>
               /\ h[s].health.t = "none"

\* graphiti_search has returned its text after one search request to a
\* service that is down.
C37_Witness ==
    \E s \in Slots :
        /\ h[s].kind = "graphiti_search" /\ h[s].pc = "done"
        /\ ServiceDown(h[s])
        /\ Len(h[s].reqs) = 1
        /\ h[s].reqs[1].op = "search"
        /\ h[s].result = "text"

\* !event.success || !event.messages || event.messages.length === 0
NothingToCapture(ev) ==
    \/ ~ev.success
    \/ ev.msgs = "absent"
    \/ (ev.msgs = "array" /\ ev.messages = <<>>)

\* The number of lines in a content: one role prefix each
LinesIn(content) ==
    Len(SelectSeq(content, LAMBDA run : run.k \in {"user: ", "assistant: "}))

EntryIds(entries) ==
    {entries[i].content[j].id :
        i \in {k \in 1..Len(entries) : entries[k].content # <<>>}, j \in 1..1}

\* C38: agent_end issues no request for an event that reports failure or
\* carries no messages; otherwise it issues at most one ingest request, of one
\* message, whose lines are at most 10 and come from the last 10 entries
\* extracted.
C38_AgentEndGateAndLastTen ==
    \A s \in Slots :
        h[s].kind = "agent_end"
            => /\ (h[s].ev.present /\ NothingToCapture(h[s].ev)) => h[s].reqs = <<>>
               /\ Len(Requests(h[s], "ingest")) <= 1
               /\ \A i \in 1..Len(Requests(h[s], "ingest")) :
                      LET m == Requests(h[s], "ingest")[i].messages
                          texts == AgentEndTexts(h[s].ev.messages)
                          recent == LastN(texts, AgentEndRecent)
                      IN /\ Len(m) = 1
                         /\ LinesIn(m[1].content) <= AgentEndRecent
                         /\ LinesIn(m[1].content) <= Len(texts)
                         /\ \A t \in 1..Len(TurnsIn(m[1].content)) :
                                TurnsIn(m[1].content)[t] \in EntryIds(recent)

\* agent_end has extracted 25 entries and submitted the last 10 of them, the
\* 16th to the 25th, in one ingest request.
C38_Witness ==
    \E s \in Slots :
        /\ h[s].kind = "agent_end" /\ h[s].pc = "done"
        /\ Len(AgentEndTexts(h[s].ev.messages)) = 25
        /\ Len(Requests(h[s], "ingest")) = 1
        /\ LinesIn(Requests(h[s], "ingest")[1].messages[1].content) = 10
        /\ TurnsIn(Requests(h[s], "ingest")[1].messages[1].content)
              = [t \in 1..10 |-> 15 + t]

\* agent_end has returned without a request for an event that reports
\* failure and carries four turns.
C38_GateWitness ==
    \E s \in Slots :
        /\ h[s].kind = "agent_end" /\ h[s].pc = "done"
        /\ ~h[s].ev.success /\ Len(h[s].ev.messages) = 4
        /\ h[s].reqs = <<>>

====
